---- MODULE Spec2Model ----
(***************************************************************************)
(* Model of the weighting and gating engine of valuation_reader            *)
(* (src/src/weight_engine.py): stage canonicalisation, weight computation, *)
(* weighted scoring and the gate fold, as one engine object serving calls. *)
(*                                                                         *)
(* Numbers: Python floats are modelled as exact rationals <<n, d>> in      *)
(* lowest terms with d > 0 (floating-point rounding error is not           *)
(* modelled; NaN and infinities are outside the model).                    *)
(* Strings that the code transforms character by character (stage names)   *)
(* are sequences of one-character strings; dictionary keys that are only   *)
(* looked up (criteria, industries, business models) are TLA+ strings.     *)
(* Optional values: None is <<>>, a present value v is <<v>>.              *)
(***************************************************************************)
EXTENDS Integers, Sequences, FiniteSets, TLC

\* ------------------------------------------------------------------
\* Rational arithmetic (float stand-in)
\* ------------------------------------------------------------------
Abs(x) == IF x < 0 THEN -x ELSE x

RECURSIVE GCD(_, _)
GCD(a, b) == IF b = 0 THEN a ELSE GCD(b, a % b)

Norm(n, d) ==
    LET g == GCD(Abs(n), Abs(d))
        s == IF d < 0 THEN -1 ELSE 1
    IN  <<(s * n) \div g, (s * d) \div g>>

R(n) == <<n, 1>>
\* a decimal literal with two places: Dec(125) is 1.25
Dec(h) == Norm(h, 100)

RMul(a, b) ==
    LET g1 == GCD(Abs(a[1]), b[2])
        g2 == GCD(Abs(b[1]), a[2])
    IN  Norm((a[1] \div g1) * (b[1] \div g2), (a[2] \div g2) * (b[2] \div g1))

\* division by a non-zero rational
RDiv(a, b) == RMul(a, Norm(b[2], b[1]))

RAdd(a, b) ==
    LET g == GCD(a[2], b[2])
    IN  Norm(a[1] * (b[2] \div g) + b[1] * (a[2] \div g), (a[2] \div g) * b[2])

RNeg(a) == <<-a[1], a[2]>>
RSub(a, b) == RAdd(a, RNeg(b))

RLt(a, b) == RSub(a, b)[1] < 0
RLe(a, b) == RSub(a, b)[1] <= 0
RMin(a, b) == IF RLt(b, a) THEN b ELSE a
RMax(a, b) == IF RLt(a, b) THEN b ELSE a

\* Python round(x, nd): to nd decimal places, ties to even
RECURSIVE Pow10(_)
Pow10(k) == IF k = 0 THEN 1 ELSE 10 * Pow10(k - 1)

\* <<q, r>> with q = floor(n * 10^k / d) and r the remainder scaled to d
RECURSIVE ScaledFloor(_, _, _, _)
ScaledFloor(q, r, d, k) ==
    IF k = 0 THEN <<q, r>>
    ELSE ScaledFloor(10 * q + ((10 * r) \div d), (10 * r) % d, d, k - 1)

RRound(x, nd) ==
    LET n  == x[1]
        d  == x[2]
        qr == ScaledFloor(n \div d, n % d, d, nd)
        q  == qr[1]
        r  == qr[2]
        up == (2 * r > d) \/ (2 * r = d /\ q % 2 = 1)
    IN  Norm(IF up THEN q + 1 ELSE q, Pow10(nd))

\* ------------------------------------------------------------------
\* Optional values
\* ------------------------------------------------------------------
None == <<>>
Some(v) == <<v>>
IsNone(o) == o = <<>>
Val(o) == o[1]

\* ------------------------------------------------------------------
\* Strings as character sequences: str.strip, str.lower, str.replace
\* ------------------------------------------------------------------
Whitespace == {" ", "\t"}

LowerTable ==
    [A |-> "a", B |-> "b", C |-> "c", D |-> "d", E |-> "e", F |-> "f",
     G |-> "g", H |-> "h", I |-> "i", J |-> "j", K |-> "k", L |-> "l",
     M |-> "m", N |-> "n", O |-> "o", P |-> "p", Q |-> "q", R |-> "r",
     S |-> "s", T |-> "t", U |-> "u", V |-> "v", W |-> "w", X |-> "x",
     Y |-> "y", Z |-> "z"]

StrLower(s) ==
    [i \in 1..Len(s) |-> IF s[i] \in DOMAIN LowerTable THEN LowerTable[s[i]] ELSE s[i]]

RECURSIVE LStrip(_)
LStrip(s) == IF s # <<>> /\ Head(s) \in Whitespace THEN LStrip(Tail(s)) ELSE s

RECURSIVE RStrip(_)
RStrip(s) ==
    IF s # <<>> /\ s[Len(s)] \in Whitespace THEN RStrip(SubSeq(s, 1, Len(s) - 1)) ELSE s

StrStrip(s) == RStrip(LStrip(s))

\* s.replace(old, new) for a one-character old and a replacement string new:
\* an empty new drops the hits, a one-character new maps them in place
RECURSIVE StrReplace(_, _, _)
StrReplace(s, old, new) ==
    IF new = <<>> THEN SelectSeq(s, LAMBDA c : c # old)
    ELSE IF Len(new) = 1 THEN [i \in 1..Len(s) |-> IF s[i] = old THEN new[1] ELSE s[i]]
    ELSE IF s = <<>> THEN <<>>
    ELSE (IF Head(s) = old THEN new ELSE <<Head(s)>>) \o StrReplace(Tail(s), old, new)

\* ------------------------------------------------------------------
\* Tables of weight_engine.py
\* ------------------------------------------------------------------
CRITERIA ==
    <<"problem_definition", "solution_product", "market", "business_model",
      "competitive_advantage", "growth_strategy", "team", "financial_plan",
      "risk_management">>

CriteriaSet == {CRITERIA[i] : i \in 1..Len(CRITERIA)}

S_seed == <<"s", "e", "e", "d">>
S_pre_a == <<"p", "r", "e", "_", "a">>
S_series_a == <<"s", "e", "r", "i", "e", "s", "_", "a">>
S_series_b == <<"s", "e", "r", "i", "e", "s", "_", "b">>
S_series_c == <<"s", "e", "r", "i", "e", "s", "_", "c">>
S_pre_ipo == <<"p", "r", "e", "_", "i", "p", "o">>
S_ipo == <<"i", "p", "o">>

WeightRow(pd, sp, mk, bm, ca, gs, tm, fp, rm) ==
    [problem_definition |-> R(pd), solution_product |-> R(sp), market |-> R(mk),
     business_model |-> R(bm), competitive_advantage |-> R(ca),
     growth_strategy |-> R(gs), team |-> R(tm), financial_plan |-> R(fp),
     risk_management |-> R(rm)]

DEFAULT_STAGE_WEIGHTS ==
       S_seed     :> WeightRow(12, 16, 16, 10,  8, 10, 18,  5,  5)
    @@ S_pre_a    :> WeightRow(10, 15, 15, 12,  8, 14, 14,  6,  6)
    @@ S_series_a :> WeightRow( 8, 14, 14, 14, 10, 16, 12,  6,  6)
    @@ S_series_b :> WeightRow( 6, 10, 12, 16, 12, 18, 10, 10,  6)
    @@ S_series_c :> WeightRow( 4,  8, 12, 18, 14, 16,  8, 12,  8)
    @@ S_pre_ipo  :> WeightRow( 3,  6, 10, 18, 15, 12,  8, 18, 10)
    @@ S_ipo      :> WeightRow( 2,  5, 10, 16, 15, 10,  7, 22, 13)

STAGE_ALIASES ==
       <<"p", "r", "e", "-", "s", "e", "e", "d">> :> S_seed
    @@ <<"p", "r", "e", "s", "e", "e", "d">> :> S_seed
    @@ <<"s", "e", "e", "d">> :> S_seed
    @@ <<"p", "r", "e", " ", "a">> :> S_pre_a
    @@ <<"p", "r", "e", "-", "a">> :> S_pre_a
    @@ <<"p", "r", "e", "_", "a">> :> S_pre_a
    @@ <<"s", "e", "r", "i", "e", "s", " ", "a">> :> S_series_a
    @@ <<"a">> :> S_series_a
    @@ <<"s", "e", "r", "i", "e", "s", "_", "a">> :> S_series_a
    @@ <<"s", "e", "r", "i", "e", "s", " ", "b">> :> S_series_b
    @@ <<"b">> :> S_series_b
    @@ <<"s", "e", "r", "i", "e", "s", "_", "b">> :> S_series_b
    @@ <<"s", "e", "r", "i", "e", "s", " ", "c">> :> S_series_c
    @@ <<"c">> :> S_series_c
    @@ <<"s", "e", "r", "i", "e", "s", "_", "c">> :> S_series_c
    @@ <<"p", "r", "e", " ", "i", "p", "o">> :> S_pre_ipo
    @@ <<"p", "r", "e", "-", "i", "p", "o">> :> S_pre_ipo
    @@ <<"p", "r", "e", "_", "i", "p", "o">> :> S_pre_ipo
    @@ <<"i", "p", "o">> :> S_ipo

DEFAULT_INDUSTRY_MULTIPLIERS ==
    [bio_healthcare |->
        [solution_product |-> Dec(125), competitive_advantage |-> Dec(110),
         team |-> Dec(110), risk_management |-> Dec(115),
         financial_plan |-> Dec(90), growth_strategy |-> Dec(90)],
     deeptech |->
        [solution_product |-> Dec(115), competitive_advantage |-> Dec(110),
         financial_plan |-> Dec(110), risk_management |-> Dec(110),
         growth_strategy |-> Dec(105), problem_definition |-> Dec(95)],
     manufacturing_sobu |->
        [competitive_advantage |-> Dec(115), financial_plan |-> Dec(115),
         growth_strategy |-> Dec(110), risk_management |-> Dec(110),
         solution_product |-> Dec(105), team |-> Dec(95)],
     platform_marketplace |->
        [growth_strategy |-> Dec(125), business_model |-> Dec(115),
         competitive_advantage |-> Dec(115), solution_product |-> Dec(95),
         financial_plan |-> Dec(90)],
     b2b_saas |->
        [growth_strategy |-> Dec(115), financial_plan |-> Dec(115),
         business_model |-> Dec(110), solution_product |-> Dec(105),
         risk_management |-> Dec(95)],
     d2c_commerce |->
        [financial_plan |-> Dec(120), business_model |-> Dec(115),
         growth_strategy |-> Dec(110), solution_product |-> Dec(100),
         competitive_advantage |-> Dec(105), risk_management |-> Dec(95)],
     fintech_regulated |->
        [risk_management |-> Dec(125), team |-> Dec(110),
         business_model |-> Dec(110), solution_product |-> Dec(100),
         financial_plan |-> Dec(105), growth_strategy |-> Dec(95)]]

DEFAULT_BUSINESS_MODEL_MULTIPLIERS ==
    [subscription_saas |->
        [financial_plan |-> Dec(110), growth_strategy |-> Dec(110),
         business_model |-> Dec(105)],
     usage_based |->
        [business_model |-> Dec(110), financial_plan |-> Dec(110),
         growth_strategy |-> Dec(105)],
     transaction_marketplace |->
        [growth_strategy |-> Dec(115), business_model |-> Dec(110),
         risk_management |-> Dec(110)],
     enterprise_sales |->
        [growth_strategy |-> Dec(110), team |-> Dec(105),
         financial_plan |-> Dec(105)]]

STAGE_ORDER == <<S_seed, S_pre_a, S_series_a, S_series_b, S_series_c, S_pre_ipo, S_ipo>>

\* enumerate(STAGE_ORDER) counts from 0
STAGE_RANK == [s \in {STAGE_ORDER[i] : i \in 1..Len(STAGE_ORDER)} |->
                 (CHOOSE i \in 1..Len(STAGE_ORDER) : STAGE_ORDER[i] = s) - 1]

\* GateRule(name, when, condition, action, note)
GateRule(name, when, condition, action, note) ==
    [name |-> name, when |-> when, condition |-> condition, action |-> action, note |-> note]

\* variant: the SaaS finance bar starts one stage later
DEFAULT_GATES_saas_bar_from_series_c ==
    << GateRule("regulated_risk_floor",
                [industry_in |-> <<"fintech_regulated", "bio_healthcare">>, stage_min |-> S_pre_a],
                [criterion |-> "risk_management", lt |-> Dec(250)],
                [cap_overall |-> R(65)],
                "regulated risk"),
       GateRule("saas_finance_bar_series_b_plus",
                [industry_in |-> <<"b2b_saas">>, stage_min |-> S_series_c],
                [criterion |-> "financial_plan", lt |-> Dec(300)],
                [penalty |-> R(8)],
                "series B+ finance bar"),
       GateRule("marketplace_liquidity_bar",
                [industry_in |-> <<"platform_marketplace">>, stage_min |-> S_series_a],
                [criterion |-> "growth_strategy", lt |-> Dec(300)],
                [penalty |-> R(6)],
                "marketplace liquidity") >>

DEFAULT_GATES ==
    << GateRule("regulated_risk_floor",
                [industry_in |-> <<"fintech_regulated", "bio_healthcare">>, stage_min |-> S_pre_a],
                [criterion |-> "risk_management", lt |-> Dec(250)],
                [cap_overall |-> R(65)],
                "regulated risk"),
       GateRule("saas_finance_bar_series_b_plus",
                [industry_in |-> <<"b2b_saas">>, stage_min |-> S_series_b],
                [criterion |-> "financial_plan", lt |-> Dec(300)],
                [penalty |-> R(8)],
                "series B+ finance bar"),
       GateRule("marketplace_liquidity_bar",
                [industry_in |-> <<"platform_marketplace">>, stage_min |-> S_series_a],
                [criterion |-> "growth_strategy", lt |-> Dec(300)],
                [penalty |-> R(6)],
                "marketplace liquidity") >>

SeqToSet(q) == {q[i] : i \in 1..Len(q)}

\* ------------------------------------------------------------------
\* Results of calls: a returned value or a raised exception
\* ------------------------------------------------------------------
Ok(v) == [ok |-> TRUE, val |-> v]
Raise(e) == [ok |-> FALSE, err |-> e]

\* dict.get(k, default)
Get(d, k, default) == IF k \in DOMAIN d THEN d[k] ELSE default

RECURSIVE RSum(_, _)
\* sum(f[k] for k in keys), keys a sequence; each term and each partial sum is
\* a computed value before it is added (x \in {e} binds x to the value of e)
RSum(f, keys) ==
    IF keys = <<>> THEN R(0)
    ELSE CHOOSE r \in { RAdd(x, rest) : x \in {f[Head(keys)]}, rest \in {RSum(f, Tail(keys))} } : TRUE

\* ------------------------------------------------------------------
\* Module-level helpers
\* ------------------------------------------------------------------
\* the dict comprehensions of the helpers are built entry by entry when the
\* statement runs: f @@ <<>> is the map f with every entry computed

\* variant: negative entries are not clamped before the sum
_normalize_weights_noclamp(raw) ==
    LET cleaned == [k \in CriteriaSet |-> Get(raw, k, R(0))] @@ <<>>
        total   == RSum(cleaned, CRITERIA)
    IN  IF RLe(total, R(0))
        THEN LET eq == RDiv(R(100), R(Len(CRITERIA)))
             IN  [k \in CriteriaSet |-> eq]
        ELSE [k \in CriteriaSet |-> RMul(RDiv(cleaned[k], total), R(100))] @@ <<>>

\* variant: a non-positive total yields all-zero weights instead of the uniform vector
_normalize_weights_zero_fallback(raw) ==
    LET cleaned == [k \in CriteriaSet |-> RMax(R(0), Get(raw, k, R(0)))] @@ <<>>
        total   == RSum(cleaned, CRITERIA)
    IN  IF RLe(total, R(0))
        THEN [k \in CriteriaSet |-> R(0)]
        ELSE [k \in CriteriaSet |-> RMul(RDiv(cleaned[k], total), R(100))] @@ <<>>

_normalize_weights(raw) ==
    LET cleaned == [k \in CriteriaSet |-> RMax(R(0), Get(raw, k, R(0)))] @@ <<>>
        total   == RSum(cleaned, CRITERIA)
    IN  IF RLe(total, R(0))
        THEN LET eq == RDiv(R(100), R(Len(CRITERIA)))
             IN  [k \in CriteriaSet |-> eq]
        ELSE [k \in CriteriaSet |-> RMul(RDiv(cleaned[k], total), R(100))] @@ <<>>

\* multipliers is optional; None and an empty map are both falsy
_apply_multipliers(base, multipliers) ==
    IF IsNone(multipliers) \/ DOMAIN Val(multipliers) = {}
    THEN base
    ELSE LET m == Val(multipliers)
         IN  [k \in DOMAIN base |-> IF k \in DOMAIN m THEN RMul(base[k], m[k]) ELSE base[k]] @@ <<>>

\* stage is canonical; stage_min is whatever the rule holds ("" is falsy)
_rank_ok(stage, stage_min) ==
    IF stage_min = <<>> THEN Ok(TRUE)
    ELSE IF stage_min \notin DOMAIN STAGE_RANK THEN Raise("KeyError")
    ELSE Ok(STAGE_RANK[stage] >= STAGE_RANK[stage_min])

\* variant: a missing context value (None) passes a membership condition
_gate_applies_none_passes(rule, stage, industry, business_model) ==
    LET w  == rule.when
        rk == IF "stage_min" \in DOMAIN w THEN _rank_ok(stage, w.stage_min) ELSE Ok(TRUE)
    IN  IF ~rk.ok THEN rk
        ELSE IF ~rk.val THEN Ok(FALSE)
        ELSE IF "industry_in" \in DOMAIN w
                /\ ~IsNone(industry) /\ Val(industry) \notin SeqToSet(w.industry_in)
             THEN Ok(FALSE)
        ELSE IF "business_model_in" \in DOMAIN w
                /\ ~IsNone(business_model) /\ Val(business_model) \notin SeqToSet(w.business_model_in)
             THEN Ok(FALSE)
        ELSE Ok(TRUE)

_gate_applies(rule, stage, industry, business_model) ==
    LET w  == rule.when
        rk == IF "stage_min" \in DOMAIN w THEN _rank_ok(stage, w.stage_min) ELSE Ok(TRUE)
    IN  IF ~rk.ok THEN rk
        ELSE IF ~rk.val THEN Ok(FALSE)
        ELSE IF "industry_in" \in DOMAIN w
                /\ (IsNone(industry) \/ Val(industry) \notin SeqToSet(w.industry_in))
             THEN Ok(FALSE)
        ELSE IF "business_model_in" \in DOMAIN w
                /\ (IsNone(business_model) \/ Val(business_model) \notin SeqToSet(w.business_model_in))
             THEN Ok(FALSE)
        ELSE Ok(TRUE)

\* ------------------------------------------------------------------
\* WeightEngine methods that are pure functions of (config, arguments)
\* ------------------------------------------------------------------
\* variant: the matched alias key is returned instead of its canonical value
normalize_stage_returns_key(stage) ==
    LET s0 == StrLower(StrStrip(IF IsNone(stage) THEN <<>> ELSE Val(stage)))
        s  == StrStrip(StrReplace(StrReplace(s0, "_", <<" ">>), "-", <<" ">>))
        t  == StrReplace(s, " ", <<>>)
    IN  IF s \in DOMAIN STAGE_ALIASES THEN Ok(s)
        ELSE IF t \in DOMAIN STAGE_ALIASES THEN Ok(t)
        ELSE Raise("ValueError: Unknown stage")

\* variant: the input is not lower-cased
normalize_stage_no_lower(stage) ==
    LET s0 == StrStrip(IF IsNone(stage) THEN <<>> ELSE Val(stage))
        s  == StrStrip(StrReplace(StrReplace(s0, "_", <<" ">>), "-", <<" ">>))
        t  == StrReplace(s, " ", <<>>)
    IN  IF s \in DOMAIN STAGE_ALIASES THEN Ok(STAGE_ALIASES[s])
        ELSE IF t \in DOMAIN STAGE_ALIASES THEN Ok(STAGE_ALIASES[t])
        ELSE Raise("ValueError: Unknown stage")

\* variant: an unmatched stage defaults to seed
normalize_stage_lenient(stage) ==
    LET s0 == StrLower(StrStrip(IF IsNone(stage) THEN <<>> ELSE Val(stage)))
        s  == StrStrip(StrReplace(StrReplace(s0, "_", <<" ">>), "-", <<" ">>))
        t  == StrReplace(s, " ", <<>>)
    IN  IF s \in DOMAIN STAGE_ALIASES THEN Ok(STAGE_ALIASES[s])
        ELSE IF t \in DOMAIN STAGE_ALIASES THEN Ok(STAGE_ALIASES[t])
        ELSE Ok(S_seed)

normalize_stage(stage) ==
    LET s0 == StrLower(StrStrip(IF IsNone(stage) THEN <<>> ELSE Val(stage)))
        s  == StrStrip(StrReplace(StrReplace(s0, "_", <<" ">>), "-", <<" ">>))
        t  == StrReplace(s, " ", <<>>)
    IN  IF s \in DOMAIN STAGE_ALIASES THEN Ok(STAGE_ALIASES[s])
        ELSE IF t \in DOMAIN STAGE_ALIASES THEN Ok(STAGE_ALIASES[t])
        ELSE Raise("ValueError: Unknown stage")

\* truthiness of an optional string: None and "" are falsy
Truthy(optstr) == ~IsNone(optstr) /\ Val(optstr) # ""

\* table.get(key): None when the key is missing
Lookup(table, key) == IF key \in DOMAIN table THEN Some(table[key]) ELSE None

\* variant: the business-model multiplier is applied to the base vector, not the running one
raw_weights_not_running(cfg, stage, industry, business_model, override_stage_weights, extra_multipliers) ==
    LET ns == normalize_stage(stage)
    IN  IF ~ns.ok THEN ns
        ELSE
        LET st   == ns.val
            base == Lookup(cfg.stage_weights, st)
        IN  IF IsNone(base) \/ DOMAIN Val(base) = {}
            THEN Raise("ValueError: Stage weights missing")
            ELSE
            LET ov   == IF IsNone(override_stage_weights) THEN <<>> ELSE Val(override_stage_weights)
                keys == DOMAIN ov \cap CriteriaSet
                raw0 == [k \in DOMAIN Val(base) \cup keys |->
                            IF k \in keys THEN ov[k] ELSE Val(base)[k]]
                raw1 == IF Truthy(industry)
                        THEN _apply_multipliers(raw0, Lookup(cfg.industry_multipliers, Val(industry)))
                        ELSE raw0
                raw2 == IF Truthy(business_model)
                        THEN _apply_multipliers(raw0, Lookup(cfg.business_model_multipliers, Val(business_model)))
                        ELSE raw1
                raw3 == _apply_multipliers(raw2, extra_multipliers)
            IN  Ok(raw3)

\* variant: a stage without a configured row gets a uniform base vector
raw_weights_default_row(cfg, stage, industry, business_model, override_stage_weights, extra_multipliers) ==
    LET ns == normalize_stage(stage)
    IN  IF ~ns.ok THEN ns
        ELSE
        LET st   == ns.val
            found == Lookup(cfg.stage_weights, st)
            base == IF IsNone(found) \/ DOMAIN Val(found) = {}
                    THEN Some([k \in CriteriaSet |-> R(1)]) ELSE found
            ov   == IF IsNone(override_stage_weights) THEN <<>> ELSE Val(override_stage_weights)
            keys == DOMAIN ov \cap CriteriaSet
            raw0 == [k \in DOMAIN Val(base) \cup keys |->
                        IF k \in keys THEN ov[k] ELSE Val(base)[k]]
            raw1 == IF Truthy(industry)
                    THEN _apply_multipliers(raw0, Lookup(cfg.industry_multipliers, Val(industry)))
                    ELSE raw0
            raw2 == IF Truthy(business_model)
                    THEN _apply_multipliers(raw1, Lookup(cfg.business_model_multipliers, Val(business_model)))
                    ELSE raw1
            raw3 == _apply_multipliers(raw2, extra_multipliers)
        IN  Ok(raw3)

\* compute_weights up to its last line: the vector `raw` that is normalised
\* variant: a context key without a row in its multiplier table is an error
raw_weights_unknown_key_raises(cfg, stage, industry, business_model, override_stage_weights, extra_multipliers) ==
    LET ns == normalize_stage(stage)
    IN  IF ~ns.ok THEN ns
        ELSE
        LET st   == ns.val
            base == Lookup(cfg.stage_weights, st)
        IN  IF IsNone(base) \/ DOMAIN Val(base) = {}
            THEN Raise("ValueError: Stage weights missing")
            ELSE IF \/ (Truthy(industry) /\ Val(industry) \notin DOMAIN cfg.industry_multipliers)
                    \/ (Truthy(business_model) /\ Val(business_model) \notin DOMAIN cfg.business_model_multipliers)
            THEN Raise("KeyError")
            ELSE
            LET ov   == IF IsNone(override_stage_weights) THEN <<>> ELSE Val(override_stage_weights)
                keys == DOMAIN ov \cap CriteriaSet
                raw0 == [k \in DOMAIN Val(base) \cup keys |->
                            IF k \in keys THEN ov[k] ELSE Val(base)[k]]
                raw1 == IF Truthy(industry)
                        THEN _apply_multipliers(raw0, Lookup(cfg.industry_multipliers, Val(industry)))
                        ELSE raw0
                raw2 == IF Truthy(business_model)
                        THEN _apply_multipliers(raw1, Lookup(cfg.business_model_multipliers, Val(business_model)))
                        ELSE raw1
                raw3 == _apply_multipliers(raw2, extra_multipliers)
            IN  Ok(raw3)

raw_weights(cfg, stage, industry, business_model, override_stage_weights, extra_multipliers) ==
    LET ns == normalize_stage(stage)
    IN  IF ~ns.ok THEN ns
        ELSE
        LET st   == ns.val
            base == Lookup(cfg.stage_weights, st)
        IN  IF IsNone(base) \/ DOMAIN Val(base) = {}
            THEN Raise("ValueError: Stage weights missing")
            ELSE
            LET ov   == IF IsNone(override_stage_weights) THEN <<>> ELSE Val(override_stage_weights)
                keys == DOMAIN ov \cap CriteriaSet
                raw0 == [k \in DOMAIN Val(base) \cup keys |->
                            IF k \in keys THEN ov[k] ELSE Val(base)[k]]
                raw1 == IF Truthy(industry)
                        THEN _apply_multipliers(raw0, Lookup(cfg.industry_multipliers, Val(industry)))
                        ELSE raw0
                raw2 == IF Truthy(business_model)
                        THEN _apply_multipliers(raw1, Lookup(cfg.business_model_multipliers, Val(business_model)))
                        ELSE raw1
                raw3 == _apply_multipliers(raw2, extra_multipliers)
            IN  Ok(raw3)

compute_weights(cfg, stage, industry, business_model, override_stage_weights, extra_multipliers) ==
    LET rw == raw_weights(cfg, stage, industry, business_model,
                          override_stage_weights, extra_multipliers)
    IN  IF ~rw.ok THEN rw ELSE Ok(_normalize_weights(rw.val))

score(scores_1_to_5, weights) ==
    LET s == [k \in CriteriaSet |-> Get(scores_1_to_5, k, R(0))]
        w == [k \in CriteriaSet |-> Get(weights, k, R(0))] @@ <<>>
        total_w == RSum(w, CRITERIA)
        sw == [k \in CriteriaSet |-> RMul(s[k], w[k])] @@ <<>>
    IN  IF RLe(total_w, R(0)) THEN R(0)
        ELSE RDiv(RSum(sw, CRITERIA), total_w)

\* ------------------------------------------------------------------
\* One iteration of the gate loop of apply_gates
\* ------------------------------------------------------------------
\* trigger test on the criterion's score (lt / gte keys, missing key = None)
\* variant: the lt comparison admits equality
Triggered_lt_inclusive(c, val) ==
    \/ ("lt" \in DOMAIN c /\ RLe(val, c.lt))
    \/ ("gte" \in DOMAIN c /\ RLe(c.gte, val))

Triggered(c, val) ==
    \/ ("lt" \in DOMAIN c /\ RLt(val, c.lt))
    \/ ("gte" \in DOMAIN c /\ RLe(c.gte, val))

\* variant: the cap is a forced value
ApplyAction_forced_cap(act, overall_100) ==
    LET capped == IF "cap_overall" \in DOMAIN act
                  THEN act.cap_overall
                  ELSE overall_100
    IN  IF "penalty" \in DOMAIN act
        THEN RMax(R(0), RSub(capped, act.penalty))
        ELSE capped

\* variant: the penalty is not clamped at 0
ApplyAction_unclamped_penalty(act, overall_100) ==
    LET capped == IF "cap_overall" \in DOMAIN act
                  THEN RMin(overall_100, act.cap_overall)
                  ELSE overall_100
    IN  IF "penalty" \in DOMAIN act
        THEN RSub(capped, act.penalty)
        ELSE capped

\* the two independent `if` blocks on the action dict
ApplyAction(act, overall_100) ==
    LET capped == IF "cap_overall" \in DOMAIN act
                  THEN RMin(overall_100, act.cap_overall)
                  ELSE overall_100
    IN  IF "penalty" \in DOMAIN act
        THEN RMax(R(0), RSub(capped, act.penalty))
        ELSE capped

\* variant: a rule over an unknown criterion raises instead of being skipped
GateBody_unknown_criterion_raises(rule, stage, industry, business_model, score_by_criterion, overall_100) ==
    LET ga == _gate_applies(rule, stage, industry, business_model)
    IN  IF ~ga.ok THEN [kind |-> "raise", err |-> ga.err]
        ELSE IF ~ga.val THEN [kind |-> "skip"]
        ELSE
        LET c == rule.condition
        IN  IF "criterion" \notin DOMAIN c \/ c.criterion \notin CriteriaSet
            THEN [kind |-> "raise", err |-> "KeyError"]
            ELSE
            LET crit == c.criterion
                val  == Get(score_by_criterion, crit, R(0))
            IN  IF ~Triggered(c, val) THEN [kind |-> "skip"]
                ELSE
                LET after == ApplyAction(rule.action, overall_100)
                IN  [kind |-> "apply",
                     after |-> after,
                     log |-> [gate |-> rule.name,
                              criterion |-> crit,
                              criterion_score |-> val,
                              before_100 |-> overall_100,
                              after_100 |-> after,
                              action |-> rule.action,
                              note |-> rule.note]]

\* variant: a rule whose action leaves the score unchanged is not logged
GateBody_log_changes_only(rule, stage, industry, business_model, score_by_criterion, overall_100) ==
    LET ga == _gate_applies(rule, stage, industry, business_model)
    IN  IF ~ga.ok THEN [kind |-> "raise", err |-> ga.err]
        ELSE IF ~ga.val THEN [kind |-> "skip"]
        ELSE
        LET c == rule.condition
        IN  IF "criterion" \notin DOMAIN c \/ c.criterion \notin CriteriaSet
            THEN [kind |-> "skip"]
            ELSE
            LET crit == c.criterion
                val  == Get(score_by_criterion, crit, R(0))
                after == ApplyAction(rule.action, overall_100)
            IN  IF ~Triggered(c, val) \/ after = overall_100 THEN [kind |-> "skip"]
                ELSE [kind |-> "apply",
                      after |-> after,
                      log |-> [gate |-> rule.name,
                               criterion |-> crit,
                               criterion_score |-> val,
                               before_100 |-> overall_100,
                               after_100 |-> after,
                               action |-> rule.action,
                               note |-> rule.note]]

\* body of `for rule in self.config.gates` for one rule:
\*   kind "raise" (exception leaves the loop), "skip" (continue) or "apply"
GateBody(rule, stage, industry, business_model, score_by_criterion, overall_100) ==
    LET ga == _gate_applies(rule, stage, industry, business_model)
    IN  IF ~ga.ok THEN [kind |-> "raise", err |-> ga.err]
        ELSE IF ~ga.val THEN [kind |-> "skip"]
        ELSE
        LET c == rule.condition
        IN  IF "criterion" \notin DOMAIN c \/ c.criterion \notin CriteriaSet
            THEN [kind |-> "skip"]
            ELSE
            LET crit == c.criterion
                val  == Get(score_by_criterion, crit, R(0))
            IN  IF ~Triggered(c, val) THEN [kind |-> "skip"]
                ELSE
                LET after == ApplyAction(rule.action, overall_100)
                IN  [kind |-> "apply",
                     after |-> after,
                     log |-> [gate |-> rule.name,
                              criterion |-> crit,
                              criterion_score |-> val,
                              before_100 |-> overall_100,
                              after_100 |-> after,
                              action |-> rule.action,
                              note |-> rule.note]]

\* ------------------------------------------------------------------
\* Bounds and the inputs drawn by the calls
\* ------------------------------------------------------------------
\* longest gate list built freely from GatePool
MaxGates == 2

\* stage strings handed to normalize_stage (None included)
StageInputs ==
    { None,
      Some(<<>>),
      Some(S_seed), Some(S_pre_a), Some(S_series_a), Some(S_series_b),
      Some(S_series_c), Some(S_pre_ipo), Some(S_ipo),
      Some(<<"S", "e", "r", "i", "e", "s", " ", "B">>),
      Some(<<"B">>),
      Some(<<" ", "b", " ">>),
      Some(<<"S", "E", "R", "I", "E", "S", "-", "B">>),
      Some(<<"B", "+">>),
      Some(<<"B", " ", "U+C774", "U+C0C1">>),
      Some(<<"p", "r", "e", "-", "s", "e", "e", "d">>),
      Some(<<"P", "r", "e", "-", "A">>),
      Some(<<"P", "R", "E", "_", "I", "P", "O">>),
      Some(<<"s", "e", "r", "i", "e", "s", " ", "c">>),
      Some(<<"a">>),
      Some(<<"s", "e", "r", "i", "e", "s", "-", "a">>),
      Some(<<"g", "r", "o", "w", "t", "h">>),
      Some(<<"s", "e", " ", "e", "d">>),
      Some(<<"s", "e", "r", "i", "e", "s", " ", " ", "b">>),
      Some(<<"\t", "I", "P", "O", " ">>) }

\* stage strings handed to compute_weights, apply_gates and evaluate
CallStages ==
    { Some(S_seed),
      Some(S_series_b),
      Some(<<"P", "r", "e", "-", "A">>),
      Some(<<"S", "e", "r", "i", "e", "s", " ", "B">>),
      Some(<<"\t", "I", "P", "O", " ">>),
      Some(<<"B", "+">>) }

\* <<industry, business_model>> pairs
Contexts ==
    { <<None, None>>,
      <<Some("b2b_saas"), Some("subscription_saas")>>,
      <<Some("fintech_regulated"), None>>,
      <<Some("nonexistent_key"), Some("nonexistent_key")>>,
      <<Some(""), Some("usage_based")>> }

AllScores(x) == [k \in CriteriaSet |-> x]

ScoreMaps ==
    { [AllScores(R(3)) EXCEPT !["financial_plan"] = Dec(250)],
      [AllScores(R(5)) EXCEPT !["risk_management"] = R(2), !["financial_plan"] = R(3)],
      [team |-> Dec(450), market |-> R(1)] }

Overrides ==
    { None,
      Some([financial_plan |-> R(-3), team |-> R(0)]),
      Some([bogus |-> R(50), market |-> R(40)]),
      Some(AllScores(R(0))) }

ExtraMultipliers ==
    { None,
      Some(<<>>),
      Some(AllScores(R(0))),
      Some([financial_plan |-> R(2), bogus |-> R(3)]),
      Some([team |-> R(-1), financial_plan |-> Dec(50)]) }

\* overall_1_to_5 handed to apply_gates directly: 0, 5, 50, 90 on the 0-100 scale
OverallInputs == { R(0), Dec(25), Dec(250), Dec(450) }

\* weight maps handed to score directly
WeightInputs ==
    { _normalize_weights(DEFAULT_STAGE_WEIGHTS[S_seed]),
      AllScores(R(0)),
      [team |-> R(1)],
      [financial_plan |-> R(-1), team |-> R(3)] }

\* ------------------------------------------------------------------
\* Configurations the engine is constructed with
\* ------------------------------------------------------------------
FP_LT_3 == [criterion |-> "financial_plan", lt |-> R(3)]

G_cap70 == GateRule("cap70", <<>>, FP_LT_3, [cap_overall |-> R(70)], "")
G_pen10 == GateRule("pen10", <<>>, FP_LT_3, [penalty |-> R(10)], "")
G_both  == GateRule("both", [business_model_in |-> <<"subscription_saas", "usage_based">>],
                    [criterion |-> "team", gte |-> R(4), lt |-> R(1)],
                    [cap_overall |-> R(65), penalty |-> R(8)], "")
G_typo  == GateRule("typo", <<>>, [criterion |-> "traction", lt |-> R(3)],
                    [penalty |-> R(50)], "")
G_noact == GateRule("noact", [stage_min |-> <<>>], [criterion |-> "market", lt |-> R(6)],
                    <<>>, "")
G_negcap == GateRule("negcap", [stage_min |-> S_pre_a], FP_LT_3, [cap_overall |-> R(-10)], "")
G_negpen == GateRule("negpen", <<>>, FP_LT_3, [penalty |-> R(-5)], "")
G_nocrit == GateRule("nocrit", <<>>, [lt |-> R(3)], [penalty |-> R(50)], "")
G_gte3  == GateRule("gte3", <<>>, [criterion |-> "team", gte |-> R(3)], [penalty |-> R(5)], "")
G_alias == GateRule("alias_stage_min",
                    [stage_min |-> <<"s", "e", "r", "i", "e", "s", " ", "b">>],
                    FP_LT_3, [penalty |-> R(8)], "")

GatePool == { G_cap70, G_pen10, G_both, G_typo }

RECURSIVE SeqsUpTo(_, _)
SeqsUpTo(S, n) ==
    IF n = 0 THEN { <<>> }
    ELSE LET shorter == SeqsUpTo(S, n - 1)
         IN  shorter \cup { Append(q, x) : q \in shorter, x \in S }

GateLists ==
    SeqsUpTo(GatePool, MaxGates)
    \cup { DEFAULT_GATES, <<G_noact, G_cap70>>, <<G_negcap>>, <<G_negpen>>, <<G_alias, G_pen10>>,
           <<G_nocrit, G_pen10>>, <<G_pen10, G_gte3>> }

DefaultConfig ==
    [stage_weights |-> DEFAULT_STAGE_WEIGHTS,
     industry_multipliers |-> DEFAULT_INDUSTRY_MULTIPLIERS,
     business_model_multipliers |-> DEFAULT_BUSINESS_MODEL_MULTIPLIERS,
     gates |-> DEFAULT_GATES]

\* a customised stage table: a partial row, an empty row, a zero row, missing rows
CUSTOM_STAGE_WEIGHTS ==
       S_seed     :> [team |-> R(10), market |-> R(5), bogus |-> R(7)]
    @@ S_pre_a    :> <<>>
    @@ S_series_b :> AllScores(R(0))

Configs ==
    { [DefaultConfig EXCEPT !.gates = g] : g \in GateLists }
    \cup { [DefaultConfig EXCEPT !.stage_weights = CUSTOM_STAGE_WEIGHTS] }

\* ------------------------------------------------------------------
\* State
\* ------------------------------------------------------------------
VARIABLES
    config,         \* self.config of the engine
    pc,             \* "idle", "ev_gates", "gates", "ev_return", "done"
    op,             \* the public method being served
    args,           \* its arguments
    raw,            \* compute_weights: raw, the vector handed to _normalize_weights
    weights,        \* evaluate: weights
    overall,        \* evaluate: overall; apply_gates: overall_1_to_5
    st,             \* apply_gates: st
    overall_100,    \* apply_gates: the running 0-100 score
    rules,          \* apply_gates: the list object the for loop iterates
    idx,            \* apply_gates: position of the for loop (1-based)
    applied,        \* apply_gates: applied; evaluate: gate_logs
    overall_after,  \* evaluate: overall_after
    result          \* what the call returned or raised

\* state of the programs around the engine; each is idle while the engine's
\* single-call machine runs, and the engine's call variables are idle while
\* one of them runs
VARIABLES
    calls,          \* concurrent evaluate calls on one engine: thread -> locals
    ui_pc,          \* app.py main run: position in the per-file body
    ui_scale,       \* top of the scale the evaluator scored on (10 or 5)
    ui_stage,       \* stage (the classifier's text)
    ui_ctx,         \* <<industry_key, bm_key>>
    ui_stage_key,   \* stage_key
    ui_weights_100, \* weights_100
    ui_section_scores, \* section_scores, keyed by the criterion of each section
    ui_scale_div,   \* scale_div
    ui_scores_1_to_5,  \* scores_1_to_5
    ui_engine_out,  \* engine_out
    caps_pc,        \* evaluator_v2.postprocess_caps: position
    llm_json,       \* its argument
    caps_scores,    \* scores
    bm_unknown,     \* bm_unknown
    caps_i,         \* index of the criterion c the loop is at
    final_scores,   \* final_scores
    caps_result,    \* what the call returned or raised
    ocr_pc,         \* pdf_ocr_pages.ocr_pdf_all_pages: position
    total_pages,    \* total_pages
    reocr,          \* reocr
    min_chars_retry, \* min_chars_retry
    page_files,     \* pages_dir: page number -> content of pNNN.txt, None when missing
    err_log,        \* lines appended to ocr_errors.log
    page_idx,       \* idx: pages the loop has finished
    ocr_txt,        \* txt
    out_pages,      \* out_pages
    ocr_calls,      \* the ocr_page_image_with_timeout calls made so far, with their outcomes
    js_pc,          \* evaluator_simple.safe_json_load: position
    js_arg,         \* its argument
    js_text,        \* text, after line 23
    start,          \* start
    scan_i,         \* i
    depth,          \* depth
    in_str,         \* in_str
    esc,            \* esc
    js_result       \* the value the call returned

uiVars == <<ui_pc, ui_scale, ui_stage, ui_ctx, ui_stage_key, ui_weights_100,
            ui_section_scores, ui_scale_div, ui_scores_1_to_5, ui_engine_out>>

capsVars == <<caps_pc, llm_json, caps_scores, bm_unknown, caps_i, final_scores, caps_result>>

ocrVars == <<ocr_pc, total_pages, reocr, min_chars_retry, page_files, err_log, page_idx,
             ocr_txt, out_pages, ocr_calls>>

jsVars == <<js_pc, js_arg, js_text, start, scan_i, depth, in_str, esc, js_result>>

otherVars == <<calls, uiVars, capsVars, ocrVars, jsVars>>

engineCallVars == <<pc, op, args, raw, weights, overall, st, overall_100, rules, idx,
                    applied, overall_after, result>>

vars == <<config, pc, op, args, raw, weights, overall, st, overall_100, rules, idx,
          applied, overall_after, result, otherVars>>

\* no call is in progress on the single-call machine
EngineIdle ==
    /\ pc = "idle"
    /\ op = "none"
    /\ args = <<>>
    /\ raw = <<>>
    /\ weights = <<>>
    /\ overall = <<>>
    /\ st = <<>>
    /\ overall_100 = <<>>
    /\ rules = <<>>
    /\ idx = 0
    /\ applied = <<>>
    /\ overall_after = <<>>
    /\ result = <<>>

ConcIdle == calls = <<>>

JsIdle ==
    /\ js_pc = "off"
    /\ js_arg = <<>>
    /\ js_text = <<>>
    /\ start = 0
    /\ scan_i = 0
    /\ depth = 0
    /\ in_str = FALSE
    /\ esc = FALSE
    /\ js_result = <<>>

OcrIdle ==
    /\ ocr_pc = "off"
    /\ total_pages = 0
    /\ reocr = FALSE
    /\ min_chars_retry = 0
    /\ page_files = <<>>
    /\ err_log = <<>>
    /\ page_idx = 0
    /\ ocr_txt = <<>>
    /\ out_pages = <<>>
    /\ ocr_calls = <<>>

CapsIdle ==
    /\ caps_pc = "off"
    /\ llm_json = <<>>
    /\ caps_scores = <<>>
    /\ bm_unknown = FALSE
    /\ caps_i = 0
    /\ final_scores = <<>>
    /\ caps_result = <<>>

UiIdle ==
    /\ ui_pc = "off"
    /\ ui_scale = 0
    /\ ui_stage = <<>>
    /\ ui_ctx = <<>>
    /\ ui_stage_key = <<>>
    /\ ui_weights_100 = <<>>
    /\ ui_section_scores = <<>>
    /\ ui_scale_div = <<>>
    /\ ui_scores_1_to_5 = <<>>
    /\ ui_engine_out = <<>>

gateLocals == <<st, overall_100, rules, idx>>

Init ==
    /\ config \in Configs
    /\ EngineIdle
    /\ ConcIdle
    /\ UiIdle
    /\ CapsIdle
    /\ OcrIdle
    /\ JsIdle

\* ------------------------------------------------------------------
\* Calls that run to completion in one step
\* ------------------------------------------------------------------
CallNormalizeStage ==
    /\ pc = "idle"
    /\ \E s \in StageInputs :
        /\ op' = "normalize_stage"
        /\ args' = [stage |-> s]
        /\ result' = normalize_stage(s)
    /\ pc' = "done"
    /\ UNCHANGED <<config, raw, weights, overall, gateLocals, applied, overall_after>>
    /\ UNCHANGED otherVars

CallComputeWeights ==
    /\ pc = "idle"
    /\ \E s \in CallStages, c \in Contexts, ov \in Overrides, ex \in ExtraMultipliers :
        /\ op' = "compute_weights"
        /\ args' = [stage |-> s, industry |-> c[1], business_model |-> c[2],
                    override_stage_weights |-> ov, extra_multipliers |-> ex]
        /\ LET rw == raw_weights(config, s, c[1], c[2], ov, ex)
           IN  raw' = IF rw.ok THEN rw.val ELSE <<>>
        /\ result' = compute_weights(config, s, c[1], c[2], ov, ex)
    /\ pc' = "done"
    /\ UNCHANGED <<config, weights, overall, gateLocals, applied, overall_after>>
    /\ UNCHANGED otherVars

CallScore ==
    /\ pc = "idle"
    /\ \E sc \in ScoreMaps, w \in WeightInputs :
        /\ op' = "score"
        /\ args' = [scores_1_to_5 |-> sc, weights |-> w]
        /\ result' = Ok(score(sc, w))
    /\ pc' = "done"
    /\ UNCHANGED <<config, raw, weights, overall, gateLocals, applied, overall_after>>
    /\ UNCHANGED otherVars

\* ------------------------------------------------------------------
\* apply_gates: entry, one loop iteration per step, exit
\* ------------------------------------------------------------------
\* lines 399-405: canonical stage, empty trail, 0-100 conversion, loop start
EnterGates(stage, overall_1_to_5) ==
    LET ns == normalize_stage(stage)
    IN  IF ~ns.ok
        THEN /\ result' = ns
             /\ pc' = "done"
             /\ UNCHANGED <<gateLocals, applied>>
        ELSE /\ st' = ns.val
             /\ applied' = <<>>
             /\ overall_100' = RMul(RDiv(overall_1_to_5, R(5)), R(100))
             /\ rules' = config.gates
             /\ idx' = 1
             /\ pc' = "gates"
             /\ UNCHANGED result

CallApplyGates ==
    /\ pc = "idle"
    /\ \E s \in CallStages, c \in Contexts, sc \in ScoreMaps, o \in OverallInputs :
        /\ op' = "apply_gates"
        /\ args' = [stage |-> s, industry |-> c[1], business_model |-> c[2],
                    score_by_criterion |-> sc, overall_1_to_5 |-> o]
        /\ overall' = o
        /\ EnterGates(s, o)
    /\ UNCHANGED <<config, raw, weights, overall_after>>
    /\ UNCHANGED otherVars

GateScores == IF op = "evaluate" THEN args.scores_1_to_5 ELSE args.score_by_criterion

\* variant: every action is applied to the pre-gate score, not the running score
GateStep_independent ==
    /\ pc = "gates"
    /\ idx <= Len(rules)
    /\ LET b == GateBody(rules[idx], st, args.industry, args.business_model,
                         GateScores, RMul(RDiv(overall, R(5)), R(100)))
       IN  CASE b.kind = "raise" ->
                    /\ result' = Raise(b.err)
                    /\ pc' = "done"
                    /\ UNCHANGED <<overall_100, applied, idx>>
             [] b.kind = "skip" ->
                    /\ idx' = idx + 1
                    /\ UNCHANGED <<overall_100, applied, pc, result>>
             [] b.kind = "apply" ->
                    /\ overall_100' = b.after
                    /\ applied' = Append(applied, [b.log EXCEPT !.before_100 = overall_100])
                    /\ idx' = idx + 1
                    /\ UNCHANGED <<pc, result>>
    /\ UNCHANGED <<config, op, args, raw, weights, overall, st, rules, overall_after>>
    /\ UNCHANGED otherVars

\* variant: every record's before_100 is the pre-gate score
GateStep_before_is_pre_gate ==
    /\ pc = "gates"
    /\ idx <= Len(rules)
    /\ LET b == GateBody(rules[idx], st, args.industry, args.business_model,
                         GateScores, overall_100)
       IN  CASE b.kind = "raise" ->
                    /\ result' = Raise(b.err)
                    /\ pc' = "done"
                    /\ UNCHANGED <<overall_100, applied, idx>>
             [] b.kind = "skip" ->
                    /\ idx' = idx + 1
                    /\ UNCHANGED <<overall_100, applied, pc, result>>
             [] b.kind = "apply" ->
                    /\ overall_100' = b.after
                    /\ applied' = Append(applied,
                            [b.log EXCEPT !.before_100 = RMul(RDiv(overall, R(5)), R(100))])
                    /\ idx' = idx + 1
                    /\ UNCHANGED <<pc, result>>
    /\ UNCHANGED <<config, op, args, raw, weights, overall, st, rules, overall_after>>
    /\ UNCHANGED otherVars

GateStep ==
    /\ pc = "gates"
    /\ idx <= Len(rules)
    /\ LET b == GateBody(rules[idx], st, args.industry, args.business_model,
                         GateScores, overall_100)
       IN  CASE b.kind = "raise" ->
                    /\ result' = Raise(b.err)
                    /\ pc' = "done"
                    /\ UNCHANGED <<overall_100, applied, idx>>
             [] b.kind = "skip" ->
                    /\ idx' = idx + 1
                    /\ UNCHANGED <<overall_100, applied, pc, result>>
             [] b.kind = "apply" ->
                    /\ overall_100' = b.after
                    /\ applied' = Append(applied, b.log)
                    /\ idx' = idx + 1
                    /\ UNCHANGED <<pc, result>>
    /\ UNCHANGED <<config, op, args, raw, weights, overall, st, rules, overall_after>>
    /\ UNCHANGED otherVars

\* lines 445-446, and the assignment of the returned pair in evaluate
GatesReturn ==
    /\ pc = "gates"
    /\ idx > Len(rules)
    /\ LET after == RMul(RDiv(overall_100, R(100)), R(5))
       IN  IF op = "apply_gates"
           THEN /\ result' = Ok(<<after, applied>>)
                /\ pc' = "done"
                /\ UNCHANGED overall_after
           ELSE /\ overall_after' = after
                /\ pc' = "ev_return"
                /\ UNCHANGED result
    /\ UNCHANGED <<config, op, args, raw, weights, overall, gateLocals, applied>>
    /\ UNCHANGED otherVars

\* ------------------------------------------------------------------
\* evaluate
\* ------------------------------------------------------------------
\* variant: the gates are evaluated whatever apply_gating says
AfterScore_always_gates(apply_gating) == "ev_gates"

\* line 475, `if apply_gating:`: where evaluate goes after scoring
AfterScore(apply_gating) == IF apply_gating THEN "ev_gates" ELSE "ev_return"

\* lines 464-475: weights, raw score, defaults of the gated values
CallEvaluate ==
    /\ pc = "idle"
    /\ \E s \in CallStages, c \in Contexts, sc \in ScoreMaps,
          ox \in {<<None, None>>, <<Some([financial_plan |-> R(-3), team |-> R(0)]),
                                    Some([financial_plan |-> R(2), bogus |-> R(3)])>>},
          g \in BOOLEAN :
        /\ op' = "evaluate"
        /\ args' = [scores_1_to_5 |-> sc, stage |-> s, industry |-> c[1],
                    business_model |-> c[2], override_stage_weights |-> ox[1],
                    extra_multipliers |-> ox[2], apply_gating |-> g]
        /\ LET cw == compute_weights(config, s, c[1], c[2], ox[1], ox[2])
           IN  IF ~cw.ok
               THEN /\ result' = cw
                    /\ pc' = "done"
                    /\ UNCHANGED <<raw, weights, overall, overall_after>>
               ELSE /\ raw' = raw_weights(config, s, c[1], c[2], ox[1], ox[2]).val
                    /\ weights' = cw.val
                    /\ overall' = score(sc, cw.val)
                    /\ overall_after' = score(sc, cw.val)
                    /\ pc' = AfterScore(g)
                    /\ UNCHANGED result
    /\ UNCHANGED <<config, gateLocals, applied>>
    /\ UNCHANGED otherVars

\* lines 476-482: the call of apply_gates
EvalEnterGates ==
    /\ pc = "ev_gates"
    /\ EnterGates(args.stage, overall)
    /\ UNCHANGED <<config, op, args, raw, weights, overall, overall_after>>
    /\ UNCHANGED otherVars

\* lines 484-494: the result dict
EvalReturn ==
    /\ pc = "ev_return"
    /\ LET ns == normalize_stage(args.stage)
       IN  IF ~ns.ok
           THEN result' = ns
           ELSE result' = Ok(
                [stage |-> ns.val,
                 industry |-> args.industry,
                 business_model |-> args.business_model,
                 weights |-> weights,
                 overall_1_to_5_raw |-> RRound(overall, 4),
                 overall_1_to_5_after_gates |-> RRound(overall_after, 4),
                 overall_100_raw |-> RRound(RMul(RDiv(overall, R(5)), R(100)), 2),
                 overall_100_after_gates |-> RRound(RMul(RDiv(overall_after, R(5)), R(100)), 2),
                 gates_applied |-> applied])
    /\ pc' = "done"
    /\ UNCHANGED <<config, op, args, raw, weights, overall, gateLocals, applied, overall_after>>
    /\ UNCHANGED otherVars

\* the caller takes the result; the call's locals are gone
Return ==
    /\ pc = "done"
    /\ pc' = "idle"
    /\ op' = "none"
    /\ args' = <<>>
    /\ raw' = <<>>
    /\ weights' = <<>>
    /\ overall' = <<>>
    /\ st' = <<>>
    /\ overall_100' = <<>>
    /\ rules' = <<>>
    /\ idx' = 0
    /\ applied' = <<>>
    /\ overall_after' = <<>>
    /\ result' = <<>>
    /\ UNCHANGED config
    /\ UNCHANGED otherVars

Next ==
    \/ CallNormalizeStage
    \/ CallComputeWeights
    \/ CallScore
    \/ CallApplyGates
    \/ CallEvaluate
    \/ EvalEnterGates
    \/ GateStep
    \/ GatesReturn
    \/ EvalReturn
    \/ Return

Spec == Init /\ [][Next]_vars

\* ==================================================================
\* Properties
\* ==================================================================
\* the pre-gate score on the 0-100 scale
PreGate100 == RMul(overall, R(20))

\* the gate fold of the call in progress has run to its end
FoldDone ==
    \/ (op = "apply_gates" /\ pc = "done" /\ result.ok)
    \/ (op = "evaluate" /\ args.apply_gating /\ pc = "ev_return")
    \/ (op = "evaluate" /\ args.apply_gating /\ pc = "done" /\ result.ok)

\* position of a canonical stage in seed < pre_a < series_a < series_b < series_c < pre_ipo < ipo
StageRankOf(s) == CHOOSE i \in 1..Len(STAGE_ORDER) : STAGE_ORDER[i] = s

StageMinHolds(rule, stage) ==
    \/ "stage_min" \notin DOMAIN rule.when
    \/ rule.when.stage_min = <<>>
    \/ /\ rule.when.stage_min \in SeqToSet(STAGE_ORDER)
       /\ StageRankOf(stage) >= StageRankOf(rule.when.stage_min)

IndustryHolds(rule, industry) ==
    \/ "industry_in" \notin DOMAIN rule.when
    \/ /\ industry # None
       /\ \E i \in 1..Len(rule.when.industry_in) : rule.when.industry_in[i] = industry[1]

BusinessModelHolds(rule, business_model) ==
    \/ "business_model_in" \notin DOMAIN rule.when
    \/ /\ business_model # None
       /\ \E i \in 1..Len(rule.when.business_model_in) :
              rule.when.business_model_in[i] = business_model[1]

AllPresentConditionsHold(rule, stage, industry, business_model) ==
    /\ StageMinHolds(rule, stage)
    /\ IndustryHolds(rule, industry)
    /\ BusinessModelHolds(rule, business_model)

TriggerFired(rule, scores) ==
    /\ "criterion" \in DOMAIN rule.condition
    /\ rule.condition.criterion \in CriteriaSet
    /\ LET v == IF rule.condition.criterion \in DOMAIN scores
                THEN scores[rule.condition.criterion] ELSE R(0)
       IN  \/ ("lt" \in DOMAIN rule.condition /\ RLt(v, rule.condition.lt))
           \/ ("gte" \in DOMAIN rule.condition /\ ~RLt(v, rule.condition.gte))

\* ---------------- C1 ----------------
WellFormedWeights(w) ==
    /\ DOMAIN w = CriteriaSet
    /\ \A k \in CriteriaSet : w[k][1] >= 0
    /\ RSum(w, CRITERIA) = R(100)

\* C1: whenever compute_weights returns (directly or inside evaluate), the
\* returned map has exactly the 9 criteria as keys, no negative value, and
\* values summing to 100.
C1_WeightsNormalized ==
    /\ (op = "compute_weights" /\ pc = "done" /\ result.ok) => WellFormedWeights(result.val)
    /\ (op = "evaluate" /\ pc \in {"ev_gates", "gates", "ev_return"}) => WellFormedWeights(weights)
    /\ (op = "evaluate" /\ pc = "done" /\ result.ok) => WellFormedWeights(result.val.weights)

\* compute_weights returned for a negative override, a known industry and a negative extra multiplier
C1_Witness ==
    /\ op = "compute_weights" /\ pc = "done" /\ result.ok
    /\ args.override_stage_weights = Some([financial_plan |-> R(-3), team |-> R(0)])
    /\ args.industry = Some("b2b_saas")
    /\ args.extra_multipliers = Some([team |-> R(-1), financial_plan |-> Dec(50)])

\* ---------------- C2 ----------------
\* C2: gate monotonicity for every accepted gate configuration: no step of the
\* gate fold increases the running 0-100 score, and the gated 0-100 score
\* returned by evaluate is never greater than the raw 0-100 score.
C2_GateMonotone ==
    [][ /\ (pc = "gates" /\ pc' = "gates") => RLe(overall_100', overall_100)
        /\ (op' = "evaluate" /\ pc' = "done" /\ result'.ok)
              => RLe(result'.val.overall_100_after_gates, result'.val.overall_100_raw) ]_vars

\* ---------------- C3 ----------------
\* C3: starting from a pre-gate score in [0,100], the running 0-100 score is
\* >= 0 after every rule, whatever cap or penalty value is configured.
C3_GateNonNegative ==
    (pc = "gates" /\ ~RLt(PreGate100, R(0)) /\ RLe(PreGate100, R(100)))
        => ~RLt(overall_100, R(0))

\* ---------------- C4 ----------------
RECURSIVE FoldActions(_, _)
\* left-to-right fold of the recorded actions over a starting score
FoldActions(trail, s) ==
    IF trail = <<>> THEN s
    ELSE FoldActions(Tail(trail), ApplyAction(Head(trail).action, s))

\* C4: the running score is the left-to-right fold of the triggered rules'
\* actions over the pre-gate score; for cap_overall(70) followed by
\* penalty(10), both triggered, the final score is max(0, min(pre_gate, 70) - 10).
C4_SequentialFold ==
    /\ (pc = "gates" \/ FoldDone) => overall_100 = FoldActions(applied, PreGate100)
    /\ (FoldDone /\ rules = <<G_cap70, G_pen10>> /\ Len(applied) = 2)
          => overall_100 = RMax(R(0), RSub(RMin(PreGate100, R(70)), R(10)))

\* cap 70 then penalty 10 on a pre-gate score of 90: 90 -> 70 -> 60
C4_Witness ==
    /\ FoldDone /\ rules = <<G_cap70, G_pen10>> /\ Len(applied) = 2
    /\ PreGate100 = R(90) /\ overall_100 = R(60)

\* ---------------- C5 ----------------
\* C5: a recorded rule whose action is cap_overall(X) leaves the running score
\* at min(score, X): unchanged when score <= X, exactly X when score > X.
C5_CapIsCeiling ==
    \A i \in 1..Len(applied) :
        DOMAIN applied[i].action = {"cap_overall"} =>
            LET X == applied[i].action.cap_overall
                b == applied[i].before_100
                a == applied[i].after_100
            IN  /\ RLe(b, X) => a = b
                /\ RLt(X, b) => a = X

\* cap_overall(65) on a running score of 90 gives exactly 65
C5_Witness ==
    \E i \in 1..Len(applied) :
        /\ applied[i].action = [cap_overall |-> R(65)]
        /\ applied[i].before_100 = R(90)
        /\ applied[i].after_100 = R(65)

\* ---------------- C6 ----------------
\* C6: a recorded rule whose action is penalty(P) leaves the running score at
\* max(0, score - P): score - P when that is >= 0, else 0.
C6_PenaltyClamped ==
    \A i \in 1..Len(applied) :
        DOMAIN applied[i].action = {"penalty"} =>
            LET d == RSub(applied[i].before_100, applied[i].action.penalty)
                a == applied[i].after_100
            IN  /\ d[1] >= 0 => a = d
                /\ d[1] < 0 => a = R(0)

\* penalty(8) on a running score of 5 gives 0
C6_Witness ==
    \E i \in 1..Len(applied) :
        /\ applied[i].action = [penalty |-> R(8)]
        /\ applied[i].before_100 = R(5)
        /\ applied[i].after_100 = R(0)

\* ---------------- C7 ----------------
\* the rules among the first n of the list that are applicable and triggered
RulesToRecord(n) ==
    SelectSeq(SubSeq(rules, 1, n),
              LAMBDA r : /\ AllPresentConditionsHold(r, st, args.industry, args.business_model)
                         /\ TriggerFired(r, GateScores))

\* C7: the audit trail holds one record for exactly the applicable and
\* triggered rules among those processed so far, in gate-table order, whether
\* or not the action changed the score.
C7_TrailExact ==
    (pc = "gates" \/ FoldDone) =>
        LET n == IF pc = "gates" THEN idx - 1 ELSE Len(rules)
            expected == RulesToRecord(n)
        IN  /\ Len(applied) = Len(expected)
            /\ \A i \in 1..Len(applied) :
                  /\ applied[i].gate = expected[i].name
                  /\ applied[i].action = expected[i].action

\* a recorded cap that did not change the score
C7_Witness ==
    /\ FoldDone
    /\ \E i \in 1..Len(applied) :
          /\ "cap_overall" \in DOMAIN applied[i].action
          /\ applied[i].before_100 = applied[i].after_100

\* ---------------- C8 ----------------
\* C8: the rule under test is treated as applicable exactly when all of its
\* present conditions hold together; an absent condition is vacuously true and
\* a membership condition fails for an absent (None) context value.
C8_ApplicableIffAllHold ==
    (pc = "gates" /\ idx <= Len(rules)) =>
        LET ga == _gate_applies(rules[idx], st, args.industry, args.business_model)
        IN  (ga.ok /\ ga.val)
              <=> AllPresentConditionsHold(rules[idx], st, args.industry, args.business_model)

\* a rule with industry_in under test, its stage condition holding, industry None
C8_Witness ==
    /\ pc = "gates" /\ idx <= Len(rules)
    /\ "industry_in" \in DOMAIN rules[idx].when
    /\ "stage_min" \in DOMAIN rules[idx].when
    /\ StageMinHolds(rules[idx], st)
    /\ args.industry = None

\* ---------------- C9 ----------------
\* C9: for every configured stage_min the stage test never fails with an error
\* and holds exactly when rank(stage) >= rank(stage_min); a rule applicable at
\* one stage is applicable at every later stage.
C9_StageMinTotal ==
    /\ ~(pc = "done" /\ op \in {"apply_gates", "evaluate"}
         /\ ~result.ok /\ result.err = "KeyError")
    /\ (pc = "gates" /\ idx <= Len(rules) /\ "stage_min" \in DOMAIN rules[idx].when
        /\ rules[idx].when.stage_min # <<>>) =>
          LET r == _rank_ok(st, rules[idx].when.stage_min)
          IN  /\ r.ok
              /\ r.val = (StageRankOf(st) >= StageRankOf(rules[idx].when.stage_min))
    /\ (pc = "gates" /\ idx <= Len(rules)) =>
          \A i \in 1..Len(STAGE_ORDER), j \in 1..Len(STAGE_ORDER) :
              LET g1 == _gate_applies(rules[idx], STAGE_ORDER[i], args.industry, args.business_model)
                  g2 == _gate_applies(rules[idx], STAGE_ORDER[j], args.industry, args.business_model)
              IN  (i <= j /\ g1.ok /\ g1.val) => (g2.ok /\ g2.val)

\* ---------------- C10 ----------------
\* the stage inputs that match no alias
UnknownStages ==
    { None,
      Some(<<>>),
      Some(<<"B", "+">>),
      Some(<<"B", " ", "U+C774", "U+C0C1">>),
      Some(<<"g", "r", "o", "w", "t", "h">>),
      Some(<<"s", "e", "r", "i", "e", "s", " ", " ", "b">>) }

\* C10: a call of normalize_stage, compute_weights, apply_gates or evaluate
\* with a stage that matches no alias ends with the unknown-stage error and
\* returns no result.
C10_UnknownStageRejected ==
    (op \in {"normalize_stage", "compute_weights", "apply_gates", "evaluate"}
     /\ args.stage \in UnknownStages)
        => (pc = "done" /\ ~result.ok /\ result.err = "ValueError: Unknown stage")

\* evaluate called with "B+" has raised
C10_Witness ==
    /\ op = "evaluate" /\ pc = "done"
    /\ args.stage = Some(<<"B", "+">>)
    /\ ~result.ok

\* ---------------- C11 ----------------
CanonicalStages == SeqToSet(STAGE_ORDER)

\* C11: normalising the value normalize_stage returned gives that value again,
\* and each of the 7 canonical identifiers is mapped to itself.
C11_Idempotent ==
    (op = "normalize_stage" /\ pc = "done") =>
        /\ result.ok => normalize_stage(Some(result.val)) = Ok(result.val)
        /\ (args.stage # None /\ args.stage[1] \in CanonicalStages)
              => result = Ok(args.stage[1])

\* a non-canonical spelling was canonicalised
C11_Witness ==
    /\ op = "normalize_stage" /\ pc = "done"
    /\ args.stage = Some(<<"P", "r", "e", "-", "A">>)
    /\ result = Ok(S_pre_a)

\* ---------------- C12 ----------------
\* spellings of "series b" and "B": letter case, separator, surrounding blanks
SeriesBSpellings ==
    { Some(<<"S", "e", "r", "i", "e", "s", " ", "B">>),
      Some(<<"S", "E", "R", "I", "E", "S", "-", "B">>),
      Some(S_series_b),
      Some(<<"B">>),
      Some(<<" ", "b", " ">>) }

\* "B+" and "B 이상"
SeriesBPlusSpellings ==
    { Some(<<"B", "+">>), Some(<<"B", " ", "U+C774", "U+C0C1">>) }

C13_MissingRowRaises ==
    /\ \A s \in CanonicalStages :
          s \in DOMAIN DEFAULT_STAGE_WEIGHTS /\ DOMAIN DEFAULT_STAGE_WEIGHTS[s] = CriteriaSet
    /\ op \in {"compute_weights", "evaluate"} =>
          LET ns == normalize_stage(args.stage)
          IN  (ns.ok /\ ns.val \notin DOMAIN config.stage_weights)
                 => (pc = "done" /\ result = Raise("ValueError: Stage weights missing"))
    /\ (config.stage_weights = DEFAULT_STAGE_WEIGHTS /\ pc = "done")
          => result # Raise("ValueError: Stage weights missing")

\* evaluate at stage ipo under a stage table without an ipo row has raised
C13_Witness ==
    /\ op = "evaluate" /\ pc = "done"
    /\ normalize_stage(args.stage) = Ok(S_ipo)
    /\ S_ipo \notin DOMAIN config.stage_weights
    /\ result = Raise("ValueError: Stage weights missing")

\* ---------------- C14 ----------------
\* w is what the claim prescribes for the multiplier-adjusted vector r
ClampedShare(r, w) ==
    LET cl(k) == IF k \in DOMAIN r /\ r[k][1] > 0 THEN r[k] ELSE R(0)
        total == RSum([k \in CriteriaSet |-> cl(k)], CRITERIA)
    IN  /\ DOMAIN w = CriteriaSet
        /\ total[1] <= 0 => \A k \in CriteriaSet : w[k] = <<100, 9>>
        /\ total[1] > 0  => \A k \in CriteriaSet : w[k] = RMul(RDiv(cl(k), total), R(100))

\* C14: when the multiplier-adjusted raw weights, negatives counted as 0, sum
\* to 0 or less, compute_weights returns 100/9 for each of the 9 criteria; in
\* every other case a negative raw weight contributes 0 to the sum and gets 0.
C14_UniformFallback ==
    /\ (op = "compute_weights" /\ pc = "done" /\ result.ok) => ClampedShare(raw, result.val)
    /\ (op = "evaluate" /\ pc \in {"ev_gates", "gates", "ev_return"}) => ClampedShare(raw, weights)
    /\ (op = "evaluate" /\ pc = "done" /\ result.ok) => ClampedShare(raw, result.val.weights)

\* an all-zero stage row with a negative override: the only non-zero raw
\* weight is negative, and the uniform vector was returned
C14_Witness ==
    /\ op = "compute_weights" /\ pc = "done" /\ result.ok
    /\ DOMAIN raw = CriteriaSet
    /\ raw["financial_plan"] = R(-3)
    /\ \A k \in CriteriaSet \ {"financial_plan"} : raw[k] = R(0)
    /\ result.val = AllScores(<<100, 9>>)

\* ---------------- C15 ----------------
\* multiplier of criterion c in the row table[key]; 1 when the key is falsy,
\* the table has no such row, or the row has no entry for c
TableMultiplier(table, key, c) ==
    IF Truthy(key) /\ Val(key) \in DOMAIN table /\ c \in DOMAIN table[Val(key)]
    THEN table[Val(key)][c]
    ELSE R(1)

ExtraMultiplier(extra, c) ==
    IF ~IsNone(extra) /\ c \in DOMAIN Val(extra) THEN Val(extra)[c] ELSE R(1)

\* the stage row with the criteria of the override written over it
OverriddenBase(row, override) ==
    LET ov == IF IsNone(override) THEN <<>> ELSE Val(override)
        keys == DOMAIN ov \cap CriteriaSet
    IN  [k \in DOMAIN row \cup keys |-> IF k \in keys THEN ov[k] ELSE row[k]]

\* C15: before normalisation the weight of each criterion c is
\* base[c] * ind[c] * bm[c] * extra[c], an absent multiplier counting as 1, and
\* the multiplier tables add no entry to the vector.
C15_MultiplicativeComposition ==
    (op \in {"compute_weights", "evaluate"} /\ raw # <<>>) =>
        LET base == OverriddenBase(config.stage_weights[normalize_stage(args.stage).val],
                                   args.override_stage_weights)
        IN  /\ DOMAIN raw = DOMAIN base
            /\ \A c \in DOMAIN raw \cap CriteriaSet :
                  raw[c] = RMul(RMul(RMul(base[c],
                              TableMultiplier(config.industry_multipliers, args.industry, c)),
                              TableMultiplier(config.business_model_multipliers, args.business_model, c)),
                              ExtraMultiplier(args.extra_multipliers, c))

\* industry, business model and extra multiplier all act on financial_plan of series_b
C15_Witness ==
    /\ op = "compute_weights" /\ pc = "done" /\ result.ok
    /\ config.stage_weights = DEFAULT_STAGE_WEIGHTS
    /\ normalize_stage(args.stage) = Ok(S_series_b)
    /\ args.industry = Some("b2b_saas")
    /\ args.business_model = Some("subscription_saas")
    /\ args.override_stage_weights = None
    /\ args.extra_multipliers = Some([financial_plan |-> R(2), bogus |-> R(3)])
    /\ "bogus" \notin DOMAIN raw
    /\ raw["financial_plan"] # DEFAULT_STAGE_WEIGHTS[S_series_b]["financial_plan"]

\* ---------------- C16 ----------------
UnknownOrAbsent(table, key) == IsNone(key) \/ (Val(key) # "" /\ Val(key) \notin DOMAIN table)

\* evaluate at stage seed, no override, no extra multiplier, neither context key in its table
UnknownKeyCall ==
    /\ op = "evaluate"
    /\ normalize_stage(args.stage) = Ok(S_seed)
    /\ UnknownOrAbsent(config.industry_multipliers, args.industry)
    /\ UnknownOrAbsent(config.business_model_multipliers, args.business_model)
    /\ args.override_stage_weights = None
    /\ args.extra_multipliers = None

StageMinsCanonical == \A i \in DOMAIN config.gates :
    LET w == config.gates[i].when
    IN  "stage_min" \in DOMAIN w => (w.stage_min = <<>> \/ w.stage_min \in DOMAIN STAGE_RANK)

\* C16: evaluate at stage seed with an industry or business-model key that is
\* in no multiplier table computes weights equal to the normalised base row of
\* seed and returns them; the unknown key raises nothing (the only error such
\* a call can end with is the KeyError of a gate rule whose stage_min is not a
\* canonical stage, which does not depend on the key).
C16_UnknownKeyPassThrough ==
    UnknownKeyCall =>
        LET expected == _normalize_weights(config.stage_weights[S_seed])
        IN  /\ pc \in {"ev_gates", "gates", "ev_return"} => weights = expected
            /\ pc = "done" =>
                  IF result.ok THEN result.val.weights = expected
                  ELSE /\ result.err = "KeyError"
                       /\ args.apply_gating
                       /\ ~StageMinsCanonical

\* evaluate returned for industry and business model both unknown
C16_Witness ==
    /\ UnknownKeyCall /\ pc = "done" /\ result.ok
    /\ args.industry = Some("nonexistent_key")
    /\ args.business_model = Some("nonexistent_key")
    /\ config.stage_weights = DEFAULT_STAGE_WEIGHTS
    /\ result.val.weights = _normalize_weights(DEFAULT_STAGE_WEIGHTS[S_seed])

\* ---------------- C17 ----------------
\* C17: score returns a value in [0,5] for scores in [0,5] and every weights
\* map; a criterion missing from the score map counts as 0; the result is 0
\* when the total weight is 0 or less.
C17_ScoreInRange ==
    (op = "score" /\ pc = "done") =>
        /\ RLe(R(0), result.val) /\ RLe(result.val, R(5))
        /\ RLe(RSum([k \in CriteriaSet |-> Get(args.weights, k, R(0))], CRITERIA), R(0))
              => result.val = R(0)

\* ---------------- C18 ----------------
\* C18: with apply_gating false evaluate never enters the gate loop, records
\* no gate, and returns gated score fields equal to the raw score fields on
\* both scales with an empty gates_applied.
C18_NoGatingBypass ==
    (op = "evaluate" /\ ~args.apply_gating) =>
        /\ pc \notin {"ev_gates", "gates"}
        /\ applied = <<>>
        /\ (pc = "done" /\ result.ok) =>
              /\ result.val.overall_1_to_5_after_gates = result.val.overall_1_to_5_raw
              /\ result.val.overall_100_after_gates = result.val.overall_100_raw
              /\ result.val.gates_applied = <<>>

\* evaluate returned without gating for scores that the configured penalty
\* rule would have triggered on
C18_Witness ==
    /\ op = "evaluate" /\ pc = "done" /\ result.ok
    /\ ~args.apply_gating
    /\ config.gates = <<G_pen10>>
    /\ TriggerFired(G_pen10, args.scores_1_to_5)
    /\ result.val.gates_applied = <<>>

\* ---------------- C19 ----------------
\* the rule's condition names no criterion, or one outside the 9 criteria
ForeignCriterion(rule) ==
    \/ "criterion" \notin DOMAIN rule.condition
    \/ rule.condition.criterion \notin CriteriaSet

\* C19: the loop iteration on a rule whose condition names a criterion
\* outside the 9 criteria, or none, does not raise, leaves the running score
\* and the audit trail as they are, and moves on to the next rule.
C19_ForeignCriterionSkipped ==
    [][ (pc = "gates" /\ idx <= Len(rules) /\ ForeignCriterion(rules[idx])) =>
            /\ pc' = "gates"
            /\ idx' = idx + 1
            /\ overall_100' = overall_100
            /\ applied' = applied
            /\ result' = result ]_vars

\* a rule without criterion was passed over and the rule after it was recorded
C19_Witness ==
    /\ FoldDone
    /\ rules = <<G_nocrit, G_pen10>>
    /\ Len(applied) = 1
    /\ applied[1].gate = "pen10"
    /\ applied[1].before_100 = PreGate100

\* ---------------- C20 ----------------
\* evaluate with the built-in configuration on the B2B SaaS series_b example
SaasSeriesBCall ==
    /\ op = "evaluate"
    /\ config = DefaultConfig
    /\ args.stage = Some(S_series_b)
    /\ args.industry = Some("b2b_saas")
    /\ args.business_model = Some("subscription_saas")
    /\ args.scores_1_to_5 = [AllScores(R(3)) EXCEPT !["financial_plan"] = Dec(250)]
    /\ args.override_stage_weights = None
    /\ args.extra_multipliers = None
    /\ args.apply_gating

\* C20: in the series_b / b2b_saas / subscription_saas example with scores all
\* 3.0 except financial_plan 2.5 and the built-in configuration, both tables
\* multiply financial_plan by more than 1 and its weight ends above its
\* normalised base weight, exactly one gate, saas_finance_bar_series_b_plus,
\* is recorded, and the gated 0-100 score is the raw 0-100 score minus 8.
C20_SaasSeriesBEndToEnd ==
    (SaasSeriesBCall /\ pc = "done") =>
        /\ result.ok
        /\ RLt(R(1), DEFAULT_INDUSTRY_MULTIPLIERS["b2b_saas"]["financial_plan"])
        /\ RLt(R(1), DEFAULT_BUSINESS_MODEL_MULTIPLIERS["subscription_saas"]["financial_plan"])
        /\ RLt(_normalize_weights(DEFAULT_STAGE_WEIGHTS[S_series_b])["financial_plan"],
               result.val.weights["financial_plan"])
        /\ Len(result.val.gates_applied) = 1
        /\ result.val.gates_applied[1].gate = "saas_finance_bar_series_b_plus"
        /\ result.val.overall_100_after_gates = RSub(result.val.overall_100_raw, R(8))

\* the example call has returned 58.85 raw and 50.85 gated
C20_Witness ==
    /\ SaasSeriesBCall /\ pc = "done" /\ result.ok
    /\ result.val.overall_100_raw = Dec(5885)
    /\ result.val.overall_100_after_gates = Dec(5085)

\* ---------------- C23 ----------------
ActionKeys(a) == DOMAIN a \cap {"cap_overall", "penalty"}

\* C23: every audit record stands for exactly one of min(score, cap) or
\* max(0, score - penalty), for every rule the engine accepts, and every rule
\* of the built-in gate table has exactly one action key.
C23_ExactlyOneAction ==
    /\ \A i \in DOMAIN DEFAULT_GATES : Cardinality(ActionKeys(DEFAULT_GATES[i].action)) = 1
    /\ (pc = "gates" \/ FoldDone) =>
          \A i \in 1..Len(applied) :
             LET r == applied[i]
             IN  \/ /\ ActionKeys(r.action) = {"cap_overall"}
                    /\ r.after_100 = RMin(r.before_100, r.action.cap_overall)
                 \/ /\ ActionKeys(r.action) = {"penalty"}
                    /\ r.after_100 = RMax(R(0), RSub(r.before_100, r.action.penalty))

\* ---------------- C29 ----------------
\* the score the trigger of the rule is compared with
TriggerScore(rule) ==
    IF rule.condition.criterion \in DOMAIN GateScores
    THEN GateScores[rule.condition.criterion] ELSE R(0)

\* C29: for an applicable rule on one of the 9 criteria, the loop iteration
\* records the rule exactly when (lt is set and score < lt) or (gte is set and
\* score >= gte), a missing score counting as 0; an lt rule at score = lt
\* records nothing, and an lt rule with positive lt at a missing score records.
C29_StrictTrigger ==
    [][ (/\ pc = "gates" /\ idx <= Len(rules)
         /\ ~ForeignCriterion(rules[idx])
         /\ AllPresentConditionsHold(rules[idx], st, args.industry, args.business_model)) =>
            LET c == rules[idx].condition
                v == TriggerScore(rules[idx])
                recorded == (Len(applied') = Len(applied) + 1)
            IN  /\ recorded <=> \/ ("lt" \in DOMAIN c /\ v[1] * c.lt[2] < c.lt[1] * v[2])
                                \/ ("gte" \in DOMAIN c /\ v[1] * c.gte[2] >= c.gte[1] * v[2])
                /\ ("lt" \in DOMAIN c /\ "gte" \notin DOMAIN c /\ v = c.lt) => applied' = applied
                /\ ("lt" \in DOMAIN c /\ c.lt[1] > 0 /\ c.criterion \notin DOMAIN GateScores)
                      => recorded
      ]_vars

\* financial_plan = 3.0 did not fire "lt 3.0"; team = 5.0 fired "gte 3.0"
C29_Witness ==
    /\ FoldDone
    /\ rules = <<G_pen10, G_gte3>>
    /\ "financial_plan" \in DOMAIN GateScores
    /\ GateScores["financial_plan"] = R(3)
    /\ Len(applied) = 1
    /\ applied[1].gate = "gte3"

\* ---------------- C30 ----------------
\* C30: the records chain over the running score: the first before_100 is the
\* pre-gate 0-100 score, each later before_100 is the previous after_100, the
\* last after_100 is the running (at the end: final) 0-100 score, and with an
\* empty trail the running score is the pre-gate score; apply_gates returns
\* that final score on the 1-5 scale and evaluate reports it rounded to 2 places.
C30_AuditChain ==
    (pc = "gates" \/ FoldDone) =>
        /\ applied = <<>> => overall_100 = PreGate100
        /\ applied # <<>> =>
              /\ applied[1].before_100 = PreGate100
              /\ \A i \in 2..Len(applied) : applied[i].before_100 = applied[i - 1].after_100
              /\ applied[Len(applied)].after_100 = overall_100
        /\ (op = "apply_gates" /\ pc = "done")
              => result.val = <<RDiv(overall_100, R(20)), applied>>
        /\ (op = "evaluate" /\ pc = "done")
              => /\ result.val.overall_100_after_gates = RRound(overall_100, 2)
                 /\ result.val.gates_applied = applied

\* two records: 90 -> 70 by the cap, 70 -> 60 by the penalty
C30_Witness ==
    /\ FoldDone
    /\ Len(applied) = 2
    /\ applied[1].before_100 = R(90) /\ applied[1].after_100 = R(70)
    /\ applied[2].before_100 = R(70) /\ applied[2].after_100 = R(60)
    /\ overall_100 = R(60)

\* ==================================================================
\* Concurrent evaluate calls on one engine
\* ==================================================================
\* The methods as functions of the configuration they read, run alone.
RECURSIVE gate_loop(_, _, _, _, _, _, _)
\* lines 405-443 over the list object rs
gate_loop(rs, stage, industry, business_model, score_by_criterion, running, trail) ==
    IF rs = <<>> THEN Ok([overall_100 |-> running, applied |-> trail])
    ELSE LET b == GateBody(Head(rs), stage, industry, business_model, score_by_criterion, running)
         IN  CASE b.kind = "raise" -> Raise(b.err)
               [] b.kind = "skip"  -> gate_loop(Tail(rs), stage, industry, business_model,
                                                score_by_criterion, running, trail)
               [] b.kind = "apply" -> gate_loop(Tail(rs), stage, industry, business_model,
                                                score_by_criterion, b.after, Append(trail, b.log))

\* apply_gates with the gate list gates
apply_gates(gates, stage, industry, business_model, score_by_criterion, overall_1_to_5) ==
    LET ns == normalize_stage(stage)
    IN  IF ~ns.ok THEN ns
        ELSE LET g == gate_loop(gates, ns.val, industry, business_model, score_by_criterion,
                                RMul(RDiv(overall_1_to_5, R(5)), R(100)), <<>>)
             IN  IF ~g.ok THEN g
                 ELSE Ok(<<RMul(RDiv(g.val.overall_100, R(100)), R(5)), g.val.applied>>)

\* lines 484-494
evaluate_result(a, w, ov, ov_after, gate_logs) ==
    LET ns == normalize_stage(a.stage)
    IN  IF ~ns.ok THEN ns
        ELSE Ok([stage |-> ns.val,
                 industry |-> a.industry,
                 business_model |-> a.business_model,
                 weights |-> w,
                 overall_1_to_5_raw |-> RRound(ov, 4),
                 overall_1_to_5_after_gates |-> RRound(ov_after, 4),
                 overall_100_raw |-> RRound(RMul(RDiv(ov, R(5)), R(100)), 2),
                 overall_100_after_gates |-> RRound(RMul(RDiv(ov_after, R(5)), R(100)), 2),
                 gates_applied |-> gate_logs])

\* evaluate is written as Python runs it: the value of each statement is
\* computed before the next statement starts (v \in {e} binds v to the value of e)

\* lines 476-494, given the weights w, the raw overall ov and the outcome ag of the gating
evaluate_gated(a, w, ov, ag) ==
    IF ~ag.ok THEN ag ELSE evaluate_result(a, w, ov, ag.val[1], ag.val[2])

\* lines 473-494, given the weights w and the raw overall ov
evaluate_scored(cfg, a, w, ov) ==
    CHOOSE r \in { evaluate_gated(a, w, ov, ag) :
                     ag \in { IF a.apply_gating
                              THEN apply_gates(cfg.gates, a.stage, a.industry, a.business_model,
                                               a.scores_1_to_5, ov)
                              ELSE Ok(<<ov, <<>>>>) } } : TRUE

\* line 472-494, given the weights w
evaluate_weighted(cfg, a, w) ==
    CHOOSE r \in { evaluate_scored(cfg, a, w, ov) : ov \in {score(a.scores_1_to_5, w)} } : TRUE

\* evaluate run from start to end against the one configuration cfg
evaluate(cfg, a) ==
    CHOOSE r \in { IF ~cw.ok THEN cw ELSE evaluate_weighted(cfg, a, cw.val) :
                     cw \in { compute_weights(cfg, a.stage, a.industry, a.business_model,
                                              a.override_stage_weights, a.extra_multipliers) } } : TRUE

Threads == {1, 2}

\* the engine every thread calls is built with, or reloaded to, one of these
ConcConfigs ==
    { DefaultConfig,
      [DefaultConfig EXCEPT !.stage_weights = CUSTOM_STAGE_WEIGHTS, !.gates = <<G_pen10>>] }

\* arguments of the concurrent evaluate calls
ConcArgs ==
    { [scores_1_to_5 |-> [AllScores(R(3)) EXCEPT !["financial_plan"] = Dec(250)],
       stage |-> Some(S_series_b), industry |-> Some("b2b_saas"),
       business_model |-> Some("subscription_saas"),
       override_stage_weights |-> None, extra_multipliers |-> None, apply_gating |-> TRUE],
      [scores_1_to_5 |-> [AllScores(R(5)) EXCEPT !["risk_management"] = R(2), !["financial_plan"] = R(2)],
       stage |-> Some(S_seed), industry |-> Some("fintech_regulated"), business_model |-> None,
       override_stage_weights |-> Some([financial_plan |-> R(30), team |-> R(0)]),
       extra_multipliers |-> None, apply_gating |-> TRUE],
      [scores_1_to_5 |-> [AllScores(R(3)) EXCEPT !["financial_plan"] = Dec(250)],
       stage |-> Some(S_seed), industry |-> None, business_model |-> Some("usage_based"),
       override_stage_weights |-> None, extra_multipliers |-> None, apply_gating |-> FALSE] }

\* the frame of a thread that is not inside evaluate
IdleCall ==
    [pc |-> "idle", args |-> <<>>, raw |-> <<>>, weights |-> <<>>, overall |-> <<>>,
     result |-> <<>>]

ConcInit ==
    /\ config \in ConcConfigs
    /\ calls = [t \in Threads |-> IdleCall]
    /\ EngineIdle
    /\ UiIdle
    /\ CapsIdle
    /\ OcrIdle
    /\ JsIdle

\* variant: raw aliases the configured row (no copy), so the override is
\* written into the stage table of the shared configuration
T_Call_in_place(t) ==
    /\ calls[t].pc = "idle"
    /\ \E a \in ConcArgs :
          LET ns   == normalize_stage(a.stage)
              base == IF ns.ok THEN Lookup(config.stage_weights, ns.val) ELSE None
          IN  IF ~ns.ok
              THEN /\ calls' = [calls EXCEPT ![t] = [IdleCall EXCEPT !.pc = "done", !.args = a,
                                                                    !.result = ns]]
                   /\ UNCHANGED config
              ELSE IF IsNone(base) \/ DOMAIN Val(base) = {}
              THEN /\ calls' = [calls EXCEPT ![t] =
                                   [IdleCall EXCEPT !.pc = "done", !.args = a,
                                                    !.result = Raise("ValueError: Stage weights missing")]]
                   /\ UNCHANGED config
              ELSE LET ov   == IF IsNone(a.override_stage_weights) THEN <<>>
                               ELSE Val(a.override_stage_weights)
                       keys == DOMAIN ov \cap CriteriaSet
                       raw0 == [k \in DOMAIN Val(base) \cup keys |->
                                   IF k \in keys THEN ov[k] ELSE Val(base)[k]]
                   IN  /\ calls' = [calls EXCEPT ![t] =
                                    [IdleCall EXCEPT !.pc = "industry", !.args = a, !.raw = raw0]]
                       /\ config' = [config EXCEPT !.stage_weights[ns.val] = raw0]
    /\ UNCHANGED <<engineCallVars, uiVars, capsVars, ocrVars, jsVars>>

\* lines 342-353: the first read of self.config, the copy of the row, the override
T_Call(t) ==
    /\ calls[t].pc = "idle"
    /\ \E a \in ConcArgs :
          LET ns   == normalize_stage(a.stage)
              base == IF ns.ok THEN Lookup(config.stage_weights, ns.val) ELSE None
          IN  IF ~ns.ok
              THEN calls' = [calls EXCEPT ![t] = [IdleCall EXCEPT !.pc = "done", !.args = a,
                                                                 !.result = ns]]
              ELSE IF IsNone(base) \/ DOMAIN Val(base) = {}
              THEN calls' = [calls EXCEPT ![t] =
                                [IdleCall EXCEPT !.pc = "done", !.args = a,
                                                 !.result = Raise("ValueError: Stage weights missing")]]
              ELSE LET ov   == IF IsNone(a.override_stage_weights) THEN <<>>
                               ELSE Val(a.override_stage_weights)
                       keys == DOMAIN ov \cap CriteriaSet
                       raw0 == [k \in DOMAIN Val(base) \cup keys |->
                                   IF k \in keys THEN ov[k] ELSE Val(base)[k]]
                   IN  calls' = [calls EXCEPT ![t] =
                                    [IdleCall EXCEPT !.pc = "industry", !.args = a, !.raw = raw0]]
    /\ UNCHANGED <<config, engineCallVars, uiVars, capsVars, ocrVars, jsVars>>

\* lines 356-357: the second read of self.config
T_Industry(t) ==
    /\ calls[t].pc = "industry"
    /\ LET a == calls[t].args
           raw1 == IF Truthy(a.industry)
                   THEN _apply_multipliers(calls[t].raw,
                                           Lookup(config.industry_multipliers, Val(a.industry)))
                   ELSE calls[t].raw
       IN  calls' = [calls EXCEPT ![t].pc = "business_model", ![t].raw = raw1]
    /\ UNCHANGED <<config, engineCallVars, uiVars, capsVars, ocrVars, jsVars>>

\* lines 360-366 and 471-475: the third read of self.config, the extra
\* multipliers, the normalisation, the score
T_BusinessModel(t) ==
    /\ calls[t].pc = "business_model"
    /\ LET a == calls[t].args
           raw2 == IF Truthy(a.business_model)
                   THEN _apply_multipliers(calls[t].raw,
                                           Lookup(config.business_model_multipliers, Val(a.business_model)))
                   ELSE calls[t].raw
           raw3 == _apply_multipliers(raw2, a.extra_multipliers)
           w    == _normalize_weights(raw3)
           ov   == score(a.scores_1_to_5, w)
       IN  calls' = [calls EXCEPT ![t].pc = "gates", ![t].raw = raw3,
                                  ![t].weights = w, ![t].overall = ov]
    /\ UNCHANGED <<config, engineCallVars, uiVars, capsVars, ocrVars, jsVars>>

\* lines 475-494: apply_gates reads self.config.gates once (line 405) and loops
\* over that list object on its own locals; then the result dict
T_Gates(t) ==
    /\ calls[t].pc = "gates"
    /\ LET a  == calls[t].args
           ag == IF a.apply_gating
                 THEN apply_gates(config.gates, a.stage, a.industry, a.business_model,
                                  a.scores_1_to_5, calls[t].overall)
                 ELSE Ok(<<calls[t].overall, <<>>>>)
       IN  calls' = [calls EXCEPT ![t].pc = "done",
                        ![t].result = IF ~ag.ok THEN ag
                                      ELSE evaluate_result(a, calls[t].weights, calls[t].overall,
                                                           ag.val[1], ag.val[2])]
    /\ UNCHANGED <<config, engineCallVars, uiVars, capsVars, ocrVars, jsVars>>

\* the caller has taken the result; the frame is gone
T_Return(t) ==
    /\ calls[t].pc = "done"
    /\ calls' = [calls EXCEPT ![t] = IdleCall]
    /\ UNCHANGED <<config, engineCallVars, uiVars, capsVars, ocrVars, jsVars>>

ConcNext ==
    \/ \E t \in Threads : T_Call(t)
    \/ \E t \in Threads : T_Industry(t)
    \/ \E t \in Threads : T_BusinessModel(t)
    \/ \E t \in Threads : T_Gates(t)
    \/ \E t \in Threads : T_Return(t)

ConcSpec == ConcInit /\ [][ConcNext]_vars

\* ---------------- C21 ----------------
\* C21: no step of a call changes the configuration tables or the argument
\* maps of a call in progress, and under every interleaving of the threads'
\* evaluate calls each call ends with the result evaluate gives when it runs
\* alone on the same configuration and arguments.
C21_CallsIndependent ==
    /\ [](\A t \in Threads :
            calls[t].pc = "done" => calls[t].result = evaluate(config, calls[t].args))
    /\ [][ /\ config' = config
           /\ \A t \in Threads :
                 (calls[t].pc # "idle" /\ calls'[t].pc # "idle") => calls'[t].args = calls[t].args
         ]_vars

\* a call with an override has returned while a different call of the other
\* thread is between its reads of the configuration
C21_Witness ==
    /\ calls[1].pc = "done" /\ calls[1].result.ok
    /\ calls[1].args.override_stage_weights # None
    /\ calls[2].pc = "business_model"
    /\ calls[2].args # calls[1].args

\* ==================================================================
\* Replacement of the engine's configuration object while calls run
\* ==================================================================
\* engine.config = <another configuration object>
Reload ==
    /\ \E c \in ConcConfigs \ {config} : config' = c
    /\ UNCHANGED <<calls, engineCallVars, uiVars, capsVars, ocrVars, jsVars>>

ReloadNext ==
    \/ \E t \in Threads : T_Call(t)
    \/ \E t \in Threads : T_Industry(t)
    \/ \E t \in Threads : T_BusinessModel(t)
    \/ \E t \in Threads : T_Gates(t)
    \/ \E t \in Threads : T_Return(t)
    \/ Reload

ReloadSpec == ConcInit /\ [][ReloadNext]_vars

\* ---------------- C22 ----------------
\* C22: an evaluate call that overlaps replacements of the configuration
\* object ends with the result of evaluating against one single configuration,
\* the old one or a new one.
C22_ReloadAtomicForReaders ==
    \A t \in Threads :
        calls[t].pc = "done" =>
            \E c \in ConcConfigs : calls[t].result = evaluate(c, calls[t].args)

\* ==================================================================
\* app.py: the per-file body of the main run around the engine
\* ==================================================================
\* sub in s (Python's substring test)
Contains(s, sub) ==
    \E i \in 1..(Len(s) - Len(sub) + 1) : SubSeq(s, i, i + Len(sub) - 1) = sub

\* variant: text that matches nothing is passed through, not mapped to seed
map_stage_for_engine_no_default(stage_raw) ==
    LET s0 == StrLower(StrStrip(IF IsNone(stage_raw) THEN <<>> ELSE Val(stage_raw)))
        s  == StrStrip(StrReplace(StrReplace(s0, "_", <<" ">>), "-", <<" ">>))
        has(sub) == Contains(s, sub)
    IN  IF \/ has(<<"b", "+">>) \/ has(<<"b", " ", "U+C774", "U+C0C1">>)
           \/ has(<<"b", "U+C774", "U+C0C1">>) \/ has(<<"b", " ", "p", "l", "u", "s">>)
        THEN S_series_b
        ELSE IF \/ has(<<"c", "+">>) \/ has(<<"c", " ", "U+C774", "U+C0C1">>)
                \/ has(<<"c", "U+C774", "U+C0C1">>)
        THEN S_series_c
        ELSE IF \/ has(<<"s", "e", "e", "d">>) \/ has(<<"p", "r", "e", "s", "e", "e", "d">>)
                \/ has(<<"p", "r", "e", " ", "s", "e", "e", "d">>)
                \/ has(<<"p", "r", "e", "-", "s", "e", "e", "d">>)
        THEN S_seed
        ELSE IF \/ has(<<"p", "r", "e", " ", "a">>) \/ has(<<"p", "r", "e", "-", "a">>)
                \/ has(<<"p", "r", "e", "a">>)
        THEN S_pre_a
        ELSE IF has(<<"s", "e", "r", "i", "e", "s", " ", "a">>) \/ s = <<"a">>
        THEN S_series_a
        ELSE IF has(<<"s", "e", "r", "i", "e", "s", " ", "b">>) \/ s = <<"b">>
        THEN S_series_b
        ELSE IF has(<<"s", "e", "r", "i", "e", "s", " ", "c">>) \/ s = <<"c">>
        THEN S_series_c
        ELSE IF has(<<"p", "r", "e", " ", "i", "p", "o">>) \/ has(<<"p", "r", "e", "-", "i", "p", "o">>)
        THEN S_pre_ipo
        ELSE IF has(<<"i", "p", "o">>)
        THEN S_ipo
        ELSE s

\* app.py lines 59-87; stage_raw is optional, the result is a stage string
map_stage_for_engine(stage_raw) ==
    LET s0 == StrLower(StrStrip(IF IsNone(stage_raw) THEN <<>> ELSE Val(stage_raw)))
        s  == StrStrip(StrReplace(StrReplace(s0, "_", <<" ">>), "-", <<" ">>))
        has(sub) == Contains(s, sub)
    IN  IF \/ has(<<"b", "+">>) \/ has(<<"b", " ", "U+C774", "U+C0C1">>)
           \/ has(<<"b", "U+C774", "U+C0C1">>) \/ has(<<"b", " ", "p", "l", "u", "s">>)
        THEN S_series_b
        ELSE IF \/ has(<<"c", "+">>) \/ has(<<"c", " ", "U+C774", "U+C0C1">>)
                \/ has(<<"c", "U+C774", "U+C0C1">>)
        THEN S_series_c
        ELSE IF \/ has(<<"s", "e", "e", "d">>) \/ has(<<"p", "r", "e", "s", "e", "e", "d">>)
                \/ has(<<"p", "r", "e", " ", "s", "e", "e", "d">>)
                \/ has(<<"p", "r", "e", "-", "s", "e", "e", "d">>)
        THEN S_seed
        ELSE IF \/ has(<<"p", "r", "e", " ", "a">>) \/ has(<<"p", "r", "e", "-", "a">>)
                \/ has(<<"p", "r", "e", "a">>)
        THEN S_pre_a
        ELSE IF has(<<"s", "e", "r", "i", "e", "s", " ", "a">>) \/ s = <<"a">>
        THEN S_series_a
        ELSE IF has(<<"s", "e", "r", "i", "e", "s", " ", "b">>) \/ s = <<"b">>
        THEN S_series_b
        ELSE IF has(<<"s", "e", "r", "i", "e", "s", " ", "c">>) \/ s = <<"c">>
        THEN S_series_c
        ELSE IF has(<<"p", "r", "e", " ", "i", "p", "o">>) \/ has(<<"p", "r", "e", "-", "i", "p", "o">>)
        THEN S_pre_ipo
        ELSE IF has(<<"i", "p", "o">>)
        THEN S_ipo
        ELSE S_seed

\* app.py lines 209-215: mx, the largest of 0.0 and the section values; a
\* value that is 0 or missing counts as 0
max_score(section_scores) ==
    LET vals == {R(0)} \cup {Get(section_scores, CRITERIA[i], R(0)) : i \in 1..Len(CRITERIA)}
    IN  CHOOSE m \in vals : \A v \in vals : RLe(v, m)

\* app.py lines 205-216
detect_scale_div(section_scores) ==
    IF RLt(Dec(550), max_score(section_scores)) THEN R(2) ELSE R(1)

\* app.py lines 447-452
scores_for_engine(section_scores, scale_div) ==
    [crit \in CriteriaSet |-> RDiv(Get(section_scores, crit, R(0)), scale_div)]

\* pieces the classifier's stage text is put together from
StageWords ==
    { <<"s", "e", "e", "d">>, <<"P", "r", "e", " ">>, <<"p", "r", "e", "-">>,
      <<"S", "e", "r", "i", "e", "s", " ">>, <<"s", "e", "r", "i", "e", "s", "_">>,
      <<"a">>, <<"B">>, <<"c">>, <<"I", "P", "O">>, <<"+">>,
      <<" ", "U+C774", "U+C0C1">>, <<"U+C774", "U+C0C1">>, <<" ", "p", "l", "u", "s">>,
      <<"U+D655", "U+C778", " ", "U+BD88", "U+AC00">>, <<" ">> }

MaxStageWords == 2

RECURSIVE WordStrings(_)
\* the concatenations of at most n pieces
WordStrings(n) ==
    IF n = 0 THEN {<<>>}
    ELSE LET shorter == WordStrings(n - 1)
         IN  shorter \cup {w \o t : w \in StageWords, t \in shorter}

\* what the classifier returned under "stage": a text, or nothing
ClassifierStages == {None} \cup {Some(t) : t \in WordStrings(MaxStageWords)}

\* line 394: (cls.get("stage") or "확인 불가").strip()
ClassifiedStage(c) ==
    StrStrip(IF IsNone(c) \/ Val(c) = <<>>
             THEN <<"U+D655", "U+C778", " ", "U+BD88", "U+AC00">> ELSE Val(c))

UiStages == {Some(ClassifiedStage(c)) : c \in ClassifierStages}

\* the stage text and the section scores of the runs with fixed other input
UiFixedStage == Some(<<"S", "e", "r", "i", "e", "s", " ", "B">>)

\* what map_industry_for_engine and map_bm_for_engine returned (lines 90-130)
UiContexts == { <<None, None>>, <<Some("b2b_saas"), Some("subscription_saas")>> }

\* the 0-10 scale of evaluator_simple's prompt, and the 0-5 scale of detect_scale_div's docstring
ScaleTops == {10, 5}

\* section scores on the scale 0..top: one value for eight sections, one for
\* the financial-plan section
Decks(top) ==
    { [AllScores(R(v)) EXCEPT !["financial_plan"] = R(w)] : v \in 0..top, w \in 0..top }

UiInit ==
    /\ config = DefaultConfig
    /\ EngineIdle
    /\ ConcIdle
    /\ CapsIdle
    /\ OcrIdle
    /\ JsIdle
    /\ ui_pc = "classified"
    /\ ui_ctx \in UiContexts
    /\ \/ /\ ui_stage \in UiStages
          /\ ui_scale = 10
          /\ ui_section_scores = AllScores(R(7))
       \/ /\ ui_stage = UiFixedStage
          /\ ui_scale \in ScaleTops
          /\ ui_section_scores \in Decks(ui_scale)
    /\ ui_stage_key = <<>>
    /\ ui_weights_100 = <<>>
    /\ ui_scale_div = <<>>
    /\ ui_scores_1_to_5 = <<>>
    /\ ui_engine_out = <<>>

\* line 397
UiMapStage ==
    /\ ui_pc = "classified"
    /\ ui_stage_key' = map_stage_for_engine(ui_stage)
    /\ ui_pc' = "mapped"
    /\ UNCHANGED <<ui_scale, ui_stage, ui_ctx, ui_weights_100, ui_section_scores,
                   ui_scale_div, ui_scores_1_to_5, ui_engine_out>>
    /\ UNCHANGED <<config, engineCallVars, calls, capsVars, ocrVars, jsVars>>

\* line 400; an exception ends the run
UiComputeWeights ==
    /\ ui_pc = "mapped"
    /\ ui_weights_100' = compute_weights(config, Some(ui_stage_key), ui_ctx[1], ui_ctx[2], None, None)
    /\ ui_pc' = IF ui_weights_100'.ok THEN "weighted" ELSE "failed"
    /\ UNCHANGED <<ui_scale, ui_stage, ui_ctx, ui_stage_key, ui_section_scores,
                   ui_scale_div, ui_scores_1_to_5, ui_engine_out>>
    /\ UNCHANGED <<config, engineCallVars, calls, capsVars, ocrVars, jsVars>>

\* lines 443-444, after the evaluator returned section_scores
UiDetectScale ==
    /\ ui_pc = "weighted"
    /\ ui_scale_div' = detect_scale_div(ui_section_scores)
    /\ ui_pc' = "detected"
    /\ UNCHANGED <<ui_scale, ui_stage, ui_ctx, ui_stage_key, ui_weights_100, ui_section_scores,
                   ui_scores_1_to_5, ui_engine_out>>
    /\ UNCHANGED <<config, engineCallVars, calls, capsVars, ocrVars, jsVars>>

\* lines 447-452
UiBuildScores ==
    /\ ui_pc = "detected"
    /\ ui_scores_1_to_5' = scores_for_engine(ui_section_scores, ui_scale_div)
    /\ ui_pc' = "scored"
    /\ UNCHANGED <<ui_scale, ui_stage, ui_ctx, ui_stage_key, ui_weights_100, ui_section_scores,
                   ui_scale_div, ui_engine_out>>
    /\ UNCHANGED <<config, engineCallVars, calls, capsVars, ocrVars, jsVars>>

\* lines 454-460
UiEvaluate ==
    /\ ui_pc = "scored"
    /\ ui_engine_out' = evaluate(config,
            [scores_1_to_5 |-> ui_scores_1_to_5, stage |-> Some(ui_stage_key),
             industry |-> ui_ctx[1], business_model |-> ui_ctx[2],
             override_stage_weights |-> None, extra_multipliers |-> None,
             apply_gating |-> TRUE])
    /\ ui_pc' = IF ui_engine_out'.ok THEN "evaluated" ELSE "failed"
    /\ UNCHANGED <<ui_scale, ui_stage, ui_ctx, ui_stage_key, ui_weights_100, ui_section_scores,
                   ui_scale_div, ui_scores_1_to_5>>
    /\ UNCHANGED <<config, engineCallVars, calls, capsVars, ocrVars, jsVars>>

UiNext ==
    \/ UiMapStage
    \/ UiComputeWeights
    \/ UiDetectScale
    \/ UiBuildScores
    \/ UiEvaluate

UiSpec == UiInit /\ [][UiNext]_vars

\* ------------------------------------------------------------------
\* C24
\* ------------------------------------------------------------------
\* no branch other than seed can match: every other branch needs an "a", a
\* "b", a "c" or "ipo" in the lower-cased text
MatchesNothing(stage_raw) ==
    LET s == StrLower(IF IsNone(stage_raw) THEN <<>> ELSE Val(stage_raw))
    IN  /\ ~Contains(s, <<"a">>)
        /\ ~Contains(s, <<"b">>)
        /\ ~Contains(s, <<"c">>)
        /\ ~Contains(s, <<"i", "p", "o">>)

UnknownStageError == Raise("ValueError: Unknown stage")

\* C24: map_stage_for_engine returns one of the 7 canonical stage identifiers
\* for every argument (None, empty and unrecognised text included), seed when
\* nothing matches; normalize_stage accepts each returned value unchanged, and
\* the compute_weights and evaluate calls of the main run never fail with the
\* unknown-stage error.
C24_StageMapperLenient ==
    /\ map_stage_for_engine(None) = S_seed
    /\ ui_pc \notin {"off", "classified"} =>
          /\ ui_stage_key = map_stage_for_engine(ui_stage)
          /\ ui_stage_key \in CanonicalStages
          /\ normalize_stage(Some(ui_stage_key)) = Ok(ui_stage_key)
          /\ MatchesNothing(ui_stage) => ui_stage_key = S_seed
    /\ ui_weights_100 # <<>> => ui_weights_100 # UnknownStageError
    /\ ui_engine_out # <<>> => ui_engine_out # UnknownStageError
    /\ ui_pc # "failed"

\* the main run evaluated a deck whose stage text matched nothing
C24_Witness ==
    /\ ui_pc = "evaluated"
    /\ ui_stage = Some(<<"U+D655", "U+C778", " ", "U+BD88", "U+AC00">>)
    /\ MatchesNothing(ui_stage)
    /\ ui_stage_key = S_seed
    /\ ui_engine_out.ok
    /\ ui_engine_out.val.stage = S_seed

\* ------------------------------------------------------------------
\* C25
\* ------------------------------------------------------------------
\* the engine total the main run gives the section scores deck (lines 444-461)
UiTotal(deck) ==
    evaluate(config,
             [scores_1_to_5 |-> scores_for_engine(deck, detect_scale_div(deck)),
              stage |-> Some(ui_stage_key),
              industry |-> ui_ctx[1], business_model |-> ui_ctx[2],
              override_stage_weights |-> None, extra_multipliers |-> None,
              apply_gating |-> TRUE]).val.overall_100_after_gates

\* every section of deck is scored higher than in the current deck
AllRaised(deck) == \A crit \in CriteriaSet : RLt(ui_section_scores[crit], deck[crit])

\* C25: section scores on the 0-10 scale get scale_div 2.0 and reach the
\* engine halved, section scores on the 0-5 scale get scale_div 1.0, and a
\* 0-10 deck with all nine section scores raised never gets a lower total.
C25_ScaleDetection ==
    /\ ui_pc \in {"detected", "scored", "evaluated"} =>
          /\ ui_scale = 10 => ui_scale_div = R(2)
          /\ ui_scale = 5 => ui_scale_div = R(1)
    /\ ui_pc \in {"scored", "evaluated"} /\ ui_scale = 10 =>
          \A crit \in CriteriaSet :
              /\ RLe(ui_scores_1_to_5[crit], RDiv(ui_section_scores[crit], R(2)))
              /\ RLe(RDiv(ui_section_scores[crit], R(2)), ui_scores_1_to_5[crit])
    /\ ui_pc = "evaluated" /\ ui_scale = 10 =>
          \A deck \in Decks(10) : \A total \in {UiTotal(deck)} :
              AllRaised(deck) => RLe(ui_engine_out.val.overall_100_after_gates, total)

\* ==================================================================
\* evaluator_v2.py: postprocess_caps
\* ==================================================================
\* JSON values as json.loads builds them, tagged with their Python type
JNull == [t |-> "null"]
JNum(x) == [t |-> "num", num |-> x]
JStr(chars) == [t |-> "str", str |-> chars]
JList(elems) == [t |-> "list", items |-> elems]
JDict(f) == [t |-> "dict", map |-> f]
\* float('nan'), which json.loads builds from NaN
JNaN == [t |-> "nan"]

\* marks a key the dict does not have
Absent == [t |-> "absent"]

\* the dict with the entries of f that are there
MkDict(f) == JDict([k \in {key \in DOMAIN f : f[key] # Absent} |-> f[k]])

EmptyDict == JDict(<<>>)

\* Python truthiness, as the `or` of lines 172, 174, 179 and 180 tests it
JTruthy(x) ==
    CASE x.t = "null" -> FALSE
      [] x.t = "num"  -> x.num[1] # 0
      [] x.t = "nan"  -> TRUE
      [] x.t = "str"  -> x.str # <<>>
      [] x.t = "list" -> x.items # <<>>
      [] x.t = "dict" -> DOMAIN x.map # {}

\* x or y
JOr(x, y) == IF JTruthy(x) THEN x ELSE y

\* d.get(key, default) on a dict d
JGet(d, key, default) == IF key \in DOMAIN d.map THEN d.map[key] ELSE default

\* a float: a rational, or NaN (denominator 0), which compares false with everything
NaN == <<0, 0>>
FLt(a, b) == a[2] # 0 /\ b[2] # 0 /\ RLt(a, b)
\* Python's min(a, b) and max(a, b) on floats
PyMin(a, b) == IF FLt(b, a) THEN b ELSE a
PyMax(a, b) == IF FLt(a, b) THEN b ELSE a

DigitValue ==
    [c \in {"0", "1", "2", "3", "4", "5", "6", "7", "8", "9"} |->
        CASE c = "0" -> 0 [] c = "1" -> 1 [] c = "2" -> 2 [] c = "3" -> 3 [] c = "4" -> 4
          [] c = "5" -> 5 [] c = "6" -> 6 [] c = "7" -> 7 [] c = "8" -> 8 [] c = "9" -> 9]

RECURSIVE DigitsValue(_)
DigitsValue(ds) ==
    IF ds = <<>> THEN 0 ELSE 10 * DigitsValue(SubSeq(ds, 1, Len(ds) - 1)) + DigitValue[ds[Len(ds)]]

IsDigits(ds) == \A i \in 1..Len(ds) : ds[i] \in DOMAIN DigitValue

\* float(text) for the unsigned decimal texts "12", "4.5", ".5", "4."; any other text raises
ParseFloat(chars) ==
    LET txt  == StrStrip(chars)
        dots == {i \in 1..Len(txt) : txt[i] = "."}
    IN  IF dots = {}
        THEN IF txt # <<>> /\ IsDigits(txt) THEN Ok(R(DigitsValue(txt))) ELSE Raise("ValueError")
        ELSE LET i  == CHOOSE j \in dots : TRUE
                 ip == SubSeq(txt, 1, i - 1)
                 fp == SubSeq(txt, i + 1, Len(txt))
             IN  IF Cardinality(dots) = 1 /\ IsDigits(ip) /\ IsDigits(fp) /\ Len(ip) + Len(fp) > 0
                 THEN Ok(RAdd(R(DigitsValue(ip)), Norm(DigitsValue(fp), Pow10(Len(fp)))))
                 ELSE Raise("ValueError")

\* lines 182-185: float(raw), 1.0 when it raises
raw_as_float(x) ==
    CASE x.t = "num" -> x.num
      [] x.t = "nan" -> NaN
      [] x.t = "str" -> (IF ParseFloat(x.str).ok THEN ParseFloat(x.str).val ELSE R(1))
      [] OTHER       -> R(1)

\* lines 29-34
CAP_BY_EVIDENCE ==
    [lv \in {<<"L", "0">>, <<"L", "1">>, <<"L", "2">>, <<"L", "3">>} |->
        CASE lv = <<"L", "0">> -> Dec(250)
          [] lv = <<"L", "1">> -> R(3)
          [] lv = <<"L", "2">> -> R(4)
          [] lv = <<"L", "3">> -> R(5)]

\* lines 106-108
clamp_score_1_to_5(x) == PyMax(R(1), PyMin(R(5), x))

\* lines 110-112
apply_cap(raw_score, evidence_level) ==
    PyMin(clamp_score_1_to_5(raw_score), Get(CAP_BY_EVIDENCE, evidence_level, Dec(250)))

UNKNOWN_NOT_DISCLOSED ==
    <<"u", "n", "k", "n", "o", "w", "n", "_", "n", "o", "t", "_",
      "d", "i", "s", "c", "l", "o", "s", "e", "d">>

\* lines 171-175: Ok(<<scores, bm_unknown>>), or the AttributeError of .get on a non-dict
caps_head(arg) ==
    LET out == IF arg.t = "dict" THEN arg ELSE EmptyDict
        sc  == JOr(JGet(out, "scores", EmptyDict), EmptyDict)
        bmv == JOr(JGet(out, "bm_revenue_mechanism", EmptyDict), EmptyDict)
    IN  IF bmv.t # "dict" THEN Raise("AttributeError")
        ELSE Ok(<<sc, JOr(JGet(bmv, "primary", JStr(<<>>)), JStr(<<>>)) = JStr(UNKNOWN_NOT_DISCLOSED)>>)

\* lines 179-191 for criterion c: Ok(<<item, fs>>), or the AttributeError of
\* .get / .strip on a value of another type
caps_body(scores, unknown, c) ==
    IF scores.t # "dict" THEN Raise("AttributeError")
    ELSE LET item == JOr(JGet(scores, c, EmptyDict), EmptyDict)
         IN  IF item.t # "dict" THEN Raise("AttributeError")
             ELSE LET lvl == JOr(JGet(item, "evidence_level", JNull), JStr(<<"L", "0">>))
                  IN  IF lvl.t # "str" THEN Raise("AttributeError")
                      ELSE LET ev == StrStrip(lvl.str)
                               fs == apply_cap(raw_as_float(JGet(item, "raw_score", JNum(R(1)))), ev)
                           IN  Ok(<<item,
                                    IF unknown /\ c \in {"business_model", "financial_plan"}
                                    THEN PyMin(fs, R(3)) ELSE fs>>)

\* f with f[key] set to val
Put(f, key, val) == [k \in DOMAIN f \cup {key} |-> IF k = key THEN val ELSE f[k]]

\* the evidence_level and raw_score values of one LLM score item
EvidenceValues ==
    { Absent, JNull, JNum(R(3)),
      JStr(<<"L", "0">>), JStr(<<"L", "1">>), JStr(<<"L", "2">>), JStr(<<"L", "3">>),
      JStr(<<"L", "9">>), JStr(<<" ", "L", "2", " ">>) }

RawScoreValues ==
    { Absent, JNull, JNaN, JNum(R(0)), JNum(R(-1)), JNum(Norm(2755, 1000)), JNum(Dec(450)),
      JNum(R(7)), JStr(<<"4", ".", "5">>), JStr(<<"a", "b", "c">>) }

\* what the LLM put under one criterion of "scores"
ScoreItems ==
    { MkDict([evidence_level |-> e, raw_score |-> r]) : e \in EvidenceValues, r \in RawScoreValues }
        \cup { Absent, JNull, JNum(R(4)) }

\* what the LLM put under the other criteria
DefaultItems == { Absent, MkDict([evidence_level |-> JStr(<<"L", "3">>), raw_score |-> JNum(Dec(450))]) }

BmValues ==
    { Absent, EmptyDict, JStr(<<"s", "a", "a", "s">>),
      MkDict([primary |-> JStr(UNKNOWN_NOT_DISCLOSED)]),
      MkDict([primary |-> JStr(<<"s", "a", "a", "s">>)]) }

\* the criteria the varied item is put under
VariedCriteria == {"team", "business_model", "financial_plan"}

LlmJsons ==
    { MkDict([scores |-> MkDict([k \in CriteriaSet |-> IF k = c THEN it ELSE other]),
              bm_revenue_mechanism |-> b]) :
        c \in VariedCriteria, it \in ScoreItems, other \in DefaultItems, b \in BmValues }
        \cup { JNull, EmptyDict, JList(<<JNum(R(1))>>),
               MkDict([scores |-> JList(<<JNum(R(1))>>)]),
               MkDict([scores |-> JNum(R(0))]) }

CapsInit ==
    /\ config = DefaultConfig
    /\ EngineIdle
    /\ ConcIdle
    /\ UiIdle
    /\ OcrIdle
    /\ JsIdle
    /\ caps_pc = "called"
    /\ llm_json \in LlmJsons
    /\ caps_scores = <<>>
    /\ bm_unknown = FALSE
    /\ caps_i = 0
    /\ final_scores = <<>>
    /\ caps_result = <<>>

\* lines 171-177
CapsHead ==
    /\ caps_pc = "called"
    /\ LET h == caps_head(llm_json)
       IN  IF h.ok
           THEN /\ caps_scores' = h.val[1]
                /\ bm_unknown' = h.val[2]
                /\ caps_i' = 1
                /\ caps_pc' = "loop"
                /\ UNCHANGED caps_result
           ELSE /\ caps_result' = h
                /\ caps_pc' = "done"
                /\ UNCHANGED <<caps_scores, bm_unknown, caps_i>>
    /\ UNCHANGED <<llm_json, final_scores>>
    /\ UNCHANGED <<config, engineCallVars, calls, uiVars, ocrVars, jsVars>>

\* lines 178-194: one pass of the loop over CRITERIA
CapsCriterion ==
    /\ caps_pc = "loop"
    /\ caps_i <= Len(CRITERIA)
    /\ LET c == CRITERIA[caps_i]
           b == caps_body(caps_scores, bm_unknown, c)
       IN  IF b.ok
           THEN /\ final_scores' = Put(final_scores, c, RRound(b.val[2], 2))
                /\ caps_scores' =
                      JDict(Put(caps_scores.map, c,
                                JDict(Put(b.val[1].map, "final_score", JNum(RRound(b.val[2], 2))))))
                /\ caps_i' = caps_i + 1
                /\ UNCHANGED <<caps_pc, caps_result>>
           ELSE /\ caps_result' = b
                /\ caps_pc' = "done"
                /\ UNCHANGED <<caps_scores, caps_i, final_scores>>
    /\ UNCHANGED <<llm_json, bm_unknown>>
    /\ UNCHANGED <<config, engineCallVars, calls, uiVars, ocrVars, jsVars>>

\* lines 196-199
CapsReturn ==
    /\ caps_pc = "loop"
    /\ caps_i > Len(CRITERIA)
    /\ caps_result' = Ok([scores |-> caps_scores,
                          _final_scores_1_to_5 |-> final_scores,
                          _bm_unknown_cap_applied |-> bm_unknown])
    /\ caps_pc' = "done"
    /\ UNCHANGED <<llm_json, caps_scores, bm_unknown, caps_i, final_scores>>
    /\ UNCHANGED <<config, engineCallVars, calls, uiVars, ocrVars, jsVars>>

CapsNext ==
    \/ CapsHead
    \/ CapsCriterion
    \/ CapsReturn

CapsSpec == CapsInit /\ [][CapsNext]_vars

\* ------------------------------------------------------------------
\* C26
\* ------------------------------------------------------------------
\* the evidence level the LLM gave criterion c, blanks stripped; <<>> when
\* there is none
GivenLevel(c) ==
    LET sc == IF llm_json.t = "dict" THEN JGet(llm_json, "scores", JNull) ELSE JNull
        it == IF sc.t = "dict" THEN JGet(sc, c, JNull) ELSE JNull
        lv == IF it.t = "dict" THEN JGet(it, "evidence_level", JNull) ELSE JNull
    IN  IF lv.t = "str" THEN StrStrip(lv.str) ELSE <<>>

\* L0 2.5, L1 3.0, L2 4.0, L3 5.0, any other or missing level 2.5
CapOfLevel(lv) ==
    CASE lv = <<"L", "1">> -> R(3)
      [] lv = <<"L", "2">> -> R(4)
      [] lv = <<"L", "3">> -> R(5)
      [] OTHER -> Dec(250)

GivenBmUnknown ==
    /\ llm_json.t = "dict"
    /\ JGet(llm_json, "bm_revenue_mechanism", JNull).t = "dict"
    /\ JGet(JGet(llm_json, "bm_revenue_mechanism", JNull), "primary", JNull)
          = JStr(UNKNOWN_NOT_DISCLOSED)

\* C26: for any LLM JSON, postprocess_caps returns _final_scores_1_to_5 with an
\* entry for each of the 9 criteria, each at least 1.0 and at most the cap of
\* its evidence level, and at most 3.0 for business_model and financial_plan
\* when the primary revenue mechanism is unknown_not_disclosed.
C26_FloorAndCaps ==
    caps_pc = "done" =>
        /\ caps_result.ok
        /\ DOMAIN caps_result.val._final_scores_1_to_5 = CriteriaSet
        /\ \A c \in CriteriaSet :
              LET fs == caps_result.val._final_scores_1_to_5[c]
              IN  /\ RLe(R(1), fs)
                  /\ RLe(fs, CapOfLevel(GivenLevel(c)))
                  /\ GivenBmUnknown /\ c \in {"business_model", "financial_plan"}
                        => RLe(fs, R(3))

\* ==================================================================
\* pdf_ocr_pages.py: ocr_pdf_all_pages
\* ==================================================================
MaxPages == 2

\* str(page_no)
PageStr(page_no) == <<"1", "2", "3", "4", "5", "6", "7", "8", "9">>[page_no]

\* line 169: the message of the except branch, for the exception named err
OcrErrorMsg(page_no, err) ==
    <<"[", "O", "C", "R", "_", "E", "R", "R", "O", "R", "]", " ", "p", "a", "g", "e", "=",
      PageStr(page_no), " ", "e", "r", "r", "=", err>>

\* s.startswith(prefix)
StartsWith(s, prefix) == Len(s) >= Len(prefix) /\ SubSeq(s, 1, Len(prefix)) = prefix

OCR_ERROR == <<"[", "O", "C", "R", "_", "E", "R", "R", "O", "R", "]">>

\* what the runner thread of ocr_page_image_with_timeout has done when join
\* returns: still running, raised, or returned a text (lines 70-84)
ThreadOutcomes ==
    { [alive |-> TRUE, err |-> None, text |-> None],
      [alive |-> FALSE, err |-> Some("RuntimeError"), text |-> None],
      [alive |-> FALSE, err |-> None, text |-> None],
      [alive |-> FALSE, err |-> None, text |-> Some(<<" ", "a", " ">>)],
      [alive |-> FALSE, err |-> None, text |-> Some(<<"a", "b", "c">>)] }

\* lines 86-92
ocr_page_image_with_timeout(outcome) ==
    IF outcome.alive THEN Raise("TimeoutError")
    ELSE IF ~IsNone(outcome.err) THEN Raise(Val(outcome.err))
    ELSE Ok(IF IsNone(outcome.text) THEN <<>> ELSE Val(outcome.text))

\* len((t or "").strip())
StrippedLen(t) == Len(StrStrip(t))

\* the cache directory a previous run left: per page no file, a text, or the
\* error message of a failed page
PriorFiles(n) ==
    { [page_no \in 1..n |->
          CASE kinds[page_no] = "none"  -> None
            [] kinds[page_no] = "text"  -> Some(<<"a", "b", "c">>)
            [] kinds[page_no] = "error" -> Some(OcrErrorMsg(page_no, "TimeoutError"))] :
        kinds \in [1..n -> {"none", "text", "error"}] }

OcrInit ==
    /\ config = DefaultConfig
    /\ EngineIdle
    /\ ConcIdle
    /\ UiIdle
    /\ CapsIdle
    /\ JsIdle
    /\ ocr_pc = "loop"
    /\ total_pages \in 1..MaxPages
    /\ reocr \in BOOLEAN
    /\ min_chars_retry \in {0, 2}
    /\ page_files \in PriorFiles(total_pages)
    /\ err_log = <<>>
    /\ page_idx = 0
    /\ ocr_txt = <<>>
    /\ out_pages = <<>>
    /\ ocr_calls = <<>>

\* lines 165-166 and 184: the page text is written to pNNN.txt and recorded
PageWritten(page_no, t) ==
    /\ page_files' = [page_files EXCEPT ![page_no] = Some(t)]
    /\ ocr_txt' = t
    /\ out_pages' = Append(out_pages, [page |-> page_no, text |-> t])
    /\ page_idx' = page_idx + 1
    /\ ocr_pc' = "loop"
    /\ UNCHANGED err_log

\* variant: the exception of a page leaves the function
PageFailed_reraises(page_no, err) ==
    /\ ocr_pc' = "raised"
    /\ UNCHANGED <<page_files, err_log, ocr_txt, out_pages, page_idx>>

\* lines 168-174 and 184: the except branch of a page, then its record
PageFailed(page_no, err) ==
    LET msg == OcrErrorMsg(page_no, err)
    IN  /\ page_files' = [page_files EXCEPT ![page_no] = Some(msg)]
        /\ err_log' = Append(err_log, msg \o <<"\n">>)
        /\ ocr_txt' = msg
        /\ out_pages' = Append(out_pages, [page |-> page_no, text |-> msg])
        /\ page_idx' = page_idx + 1
        /\ ocr_pc' = "loop"

\* lines 136-138 and 184: the page has a cache file and reocr is off
PageFromCache ==
    /\ ocr_pc = "loop"
    /\ page_idx < total_pages
    /\ LET page_no == page_idx + 1
       IN  /\ ~reocr /\ ~IsNone(page_files[page_no])
           /\ ocr_txt' = Val(page_files[page_no])
           /\ out_pages' = Append(out_pages, [page |-> page_no, text |-> Val(page_files[page_no])])
           /\ page_idx' = page_idx + 1
    /\ UNCHANGED <<ocr_pc, total_pages, reocr, min_chars_retry, page_files, err_log, ocr_calls>>
    /\ UNCHANGED <<config, engineCallVars, calls, uiVars, capsVars, jsVars>>

\* lines 140-150 (and 165-174, 184 when there is no retry): the OCR call of the page
PageOcr ==
    /\ ocr_pc = "loop"
    /\ page_idx < total_pages
    /\ LET page_no == page_idx + 1
       IN  /\ reocr \/ IsNone(page_files[page_no])
           /\ \E outcome \in ThreadOutcomes :
                LET r == ocr_page_image_with_timeout(outcome)
                IN  /\ ocr_calls' = Append(ocr_calls,
                                           [page |-> page_no, model |-> "model_name", result |-> r])
                    /\ IF ~r.ok THEN PageFailed(page_no, r.err)
                       ELSE IF min_chars_retry # 0 /\ StrippedLen(r.val) < min_chars_retry
                       THEN /\ ocr_txt' = r.val
                            /\ ocr_pc' = "retry"
                            /\ UNCHANGED <<page_files, err_log, out_pages, page_idx>>
                       ELSE PageWritten(page_no, r.val)
    /\ UNCHANGED <<total_pages, reocr, min_chars_retry>>
    /\ UNCHANGED <<config, engineCallVars, calls, uiVars, capsVars, jsVars>>

\* lines 151-166 and 184: the retry of a short page; its failure is passed over
PageRetry ==
    /\ ocr_pc = "retry"
    /\ LET page_no == page_idx + 1
       IN  \E outcome \in ThreadOutcomes :
                LET r == ocr_page_image_with_timeout(outcome)
                IN  /\ ocr_calls' = Append(ocr_calls,
                                           [page |-> page_no, model |-> "retry_model", result |-> r])
                    /\ PageWritten(page_no,
                                   IF r.ok /\ StrippedLen(r.val) > StrippedLen(ocr_txt)
                                   THEN r.val ELSE ocr_txt)
    /\ UNCHANGED <<total_pages, reocr, min_chars_retry>>
    /\ UNCHANGED <<config, engineCallVars, calls, uiVars, capsVars, jsVars>>

\* line 190
OcrReturn ==
    /\ ocr_pc = "loop"
    /\ page_idx = total_pages
    /\ ocr_pc' = "returned"
    /\ UNCHANGED <<total_pages, reocr, min_chars_retry, page_files, err_log, page_idx,
                   ocr_txt, out_pages, ocr_calls>>
    /\ UNCHANGED <<config, engineCallVars, calls, uiVars, capsVars, jsVars>>

OcrNext ==
    \/ PageFromCache
    \/ PageOcr
    \/ PageRetry
    \/ OcrReturn

OcrSpec == OcrInit /\ [][OcrNext]_vars

\* every step of the loop is taken: each OCR call ends when join(timeout_sec)
\* returns, and file reads and writes end
OcrFairSpec == OcrSpec /\ WF_vars(OcrNext)

\* ------------------------------------------------------------------
\* C27
\* ------------------------------------------------------------------
\* the OCR call of page p (the call with model_name) raised or timed out
OcrCallFailed(p) ==
    \E i \in 1..Len(ocr_calls) :
        /\ ocr_calls[i].page = p
        /\ ocr_calls[i].model = "model_name"
        /\ ~ocr_calls[i].result.ok

\* the records so far are those of pages 1, 2, ... in this order
RecordsInOrder ==
    /\ Len(out_pages) = page_idx
    /\ \A i \in 1..Len(out_pages) : out_pages[i].page = i

\* page p has an [OCR_ERROR] record, which is also in its cache file and in the log
ErrorRecorded(p) ==
    /\ Len(out_pages) >= p
    /\ StartsWith(out_pages[p].text, OCR_ERROR)
    /\ page_files[p] = Some(out_pages[p].text)
    /\ \E j \in 1..Len(err_log) : err_log[j] = out_pages[p].text \o <<"\n">>

AllPagesReturned == ocr_pc = "returned" /\ Len(out_pages) = total_pages

\* C27: ocr_pdf_all_pages returns one record per page, pages 1..N in
\* increasing order; a page whose OCR call raised or timed out gets a record
\* whose text starts with [OCR_ERROR], also written to the page's cache file
\* and appended to the error log; and after such a page the loop goes on to
\* process the later pages and returns all N records.
C27_KeepsGoingAfterFailure ==
    /\ [](/\ RecordsInOrder
          /\ ocr_pc \in {"loop", "retry", "returned"}
          /\ ocr_pc = "returned" => Len(out_pages) = total_pages
          /\ \A p \in 1..MaxPages : OcrCallFailed(p) => ErrorRecorded(p))
    /\ <>AllPagesReturned
    /\ \A p \in 1..MaxPages : OcrCallFailed(p) ~> AllPagesReturned

\* page 1 timed out, page 2 was OCRed after it, and both records were returned
C27_Witness ==
    /\ ocr_pc = "returned"
    /\ total_pages = 2
    /\ Len(ocr_calls) >= 2
    /\ ocr_calls[1] = [page |-> 1, model |-> "model_name", result |-> Raise("TimeoutError")]
    /\ ocr_calls[2].page = 2
    /\ StartsWith(out_pages[1].text, OCR_ERROR)
    /\ out_pages[2] = [page |-> 2, text |-> <<"a", "b", "c">>]

\* ==================================================================
\* evaluator_simple.py: safe_json_load (the same code is
\* evaluator_v2.safe_json_first_object and ir_evaluator.safe_json_load)
\* ==================================================================
\* json.loads, for texts over the characters { } [ ] " \ : 1 k x and blank.
\* A decoder returns [ok |-> TRUE, val, rest] or NoValue.
NoValue == [ok |-> FALSE]
Parsed(v, r) == [ok |-> TRUE, val |-> v, rest |-> r]

\* the whitespace the decoder passes over
JsonWs == {" ", "\t", "\n", "\r"}

RECURSIVE SkipWs(_)
SkipWs(s) == IF s # <<>> /\ Head(s) \in JsonWs THEN SkipWs(Tail(s)) ELSE s

\* the two-character escapes of a JSON string that these texts can hold
JsonEscapes == {"\"", "\\"}

RECURSIVE py_scanstring(_, _)
\* the string whose opening quote has been read; acc is what was read of it
py_scanstring(s, acc) ==
    IF s = <<>> THEN NoValue
    ELSE IF Head(s) = "\"" THEN Parsed(JStr(acc), Tail(s))
    ELSE IF Head(s) = "\\"
         THEN IF Len(s) >= 2 /\ s[2] \in JsonEscapes
              THEN py_scanstring(SubSeq(s, 3, Len(s)), Append(acc, s[2]))
              ELSE NoValue
    ELSE py_scanstring(Tail(s), Append(acc, Head(s)))

RECURSIVE OnesRun(_)
\* the digits at the head of s (the only digit of these texts is 1)
OnesRun(s) == IF s # <<>> /\ Head(s) = "1" THEN <<"1">> \o OnesRun(Tail(s)) ELSE <<>>

RECURSIVE scan_once(_)
\* the value that starts at the head of s; an object has at most one member
\* and an array at most one element, as these texts have no comma
scan_once(s) ==
    IF s = <<>> THEN NoValue
    ELSE IF Head(s) = "\"" THEN py_scanstring(Tail(s), <<>>)
    ELSE IF Head(s) = "1"
         THEN Parsed(JNum(R(DigitsValue(OnesRun(s)))), SubSeq(s, Len(OnesRun(s)) + 1, Len(s)))
    ELSE IF Head(s) = "{"
         THEN LET s1 == SkipWs(Tail(s))
              IN  IF s1 # <<>> /\ Head(s1) = "}" THEN Parsed(EmptyDict, Tail(s1))
                  ELSE IF s1 = <<>> \/ Head(s1) # "\"" THEN NoValue
                  ELSE LET key == py_scanstring(Tail(s1), <<>>)
                       IN  IF ~key.ok THEN NoValue
                           ELSE LET s2 == SkipWs(key.rest)
                                IN  IF s2 = <<>> \/ Head(s2) # ":" THEN NoValue
                                    ELSE LET member == scan_once(SkipWs(Tail(s2)))
                                         IN  IF ~member.ok THEN NoValue
                                             ELSE LET s3 == SkipWs(member.rest)
                                                  IN  IF s3 # <<>> /\ Head(s3) = "}"
                                                      THEN Parsed(JDict([k \in {key.val.str} |-> member.val]),
                                                                  Tail(s3))
                                                      ELSE NoValue
    ELSE IF Head(s) = "["
         THEN LET s1 == SkipWs(Tail(s))
              IN  IF s1 # <<>> /\ Head(s1) = "]" THEN Parsed(JList(<<>>), Tail(s1))
                  ELSE LET element == scan_once(s1)
                       IN  IF ~element.ok THEN NoValue
                           ELSE LET s2 == SkipWs(element.rest)
                                IN  IF s2 # <<>> /\ Head(s2) = "]"
                                    THEN Parsed(JList(<<element.val>>), Tail(s2))
                                    ELSE NoValue
    ELSE NoValue

\* json.loads(s): Ok(value), or the JSONDecodeError
json_loads(s) ==
    LET v == scan_once(SkipWs(s))
    IN  IF v.ok /\ SkipWs(v.rest) = <<>> THEN Ok(v.val) ELSE Raise("JSONDecodeError")

\* text.find("{"), counting from 1; 0 when there is none
FindBrace(s) ==
    IF \E i \in 1..Len(s) : s[i] = "{"
    THEN CHOOSE i \in 1..Len(s) : s[i] = "{" /\ \A j \in 1..(i - 1) : s[j] # "{"
    ELSE 0

\* the error dicts of lines 33, 62 and 64
K_error == <<"e", "r", "r", "o", "r">>
K_raw == <<"r", "a", "w">>
K_candidate == <<"c", "a", "n", "d", "i", "d", "a", "t", "e">>

ErrorDict(message, raw_text) ==
    JDict([k \in {K_error, K_raw} |-> IF k = K_error THEN JStr(<<message>>) ELSE JStr(raw_text)])

ParseFailedDict(raw_text, cand) ==
    JDict([k \in {K_error, K_raw, K_candidate} |->
              IF k = K_error THEN JStr(<<"JSON parse failed">>)
              ELSE IF k = K_raw THEN JStr(raw_text) ELSE JStr(cand)])

\* pieces the LLM answer is put together from
JsonPieces ==
    { <<"{">>, <<"}">>, <<"\"">>, <<"\\">>, <<"\"", "k", "\"", ":", "1">>,
      <<"[", "1", "]">>, <<"x">>, <<" ">> }

MaxJsonPieces == 4

RECURSIVE JsonTexts(_)
\* the concatenations of at most n pieces
JsonTexts(n) ==
    IF n = 0 THEN {<<>>}
    ELSE LET shorter == JsonTexts(n - 1)
         IN  shorter \cup {piece \o t : piece \in JsonPieces, t \in shorter}

JsInit ==
    /\ config = DefaultConfig
    /\ EngineIdle
    /\ ConcIdle
    /\ UiIdle
    /\ CapsIdle
    /\ OcrIdle
    /\ js_pc = "called"
    /\ js_arg \in {None} \cup {Some(t) : t \in JsonTexts(MaxJsonPieces)}
    /\ js_text = <<>>
    /\ start = 0
    /\ scan_i = 0
    /\ depth = 0
    /\ in_str = FALSE
    /\ esc = FALSE
    /\ js_result = <<>>

\* lines 23-37: strip, the attempt on the whole text, the search for "{"
JsWhole ==
    /\ js_pc = "called"
    /\ LET stripped == StrStrip(IF IsNone(js_arg) THEN <<>> ELSE Val(js_arg))
           whole == json_loads(stripped)
       IN  /\ js_text' = stripped
           /\ IF stripped = <<>>
              THEN /\ js_result' = EmptyDict
                   /\ js_pc' = "done"
                   /\ UNCHANGED <<start, scan_i>>
              ELSE IF whole.ok
              THEN /\ js_result' = whole.val
                   /\ js_pc' = "done"
                   /\ UNCHANGED <<start, scan_i>>
              ELSE IF FindBrace(stripped) = 0
              THEN /\ js_result' = ErrorDict("No JSON object found", stripped)
                   /\ js_pc' = "done"
                   /\ UNCHANGED <<start, scan_i>>
              ELSE /\ start' = FindBrace(stripped)
                   /\ scan_i' = FindBrace(stripped)
                   /\ js_pc' = "scan"
                   /\ UNCHANGED js_result
    /\ UNCHANGED <<js_arg, depth, in_str, esc>>
    /\ UNCHANGED <<config, engineCallVars, calls, uiVars, capsVars, ocrVars>>

\* lines 38-62: one pass of the loop, on the character text[i]
JsScanChar ==
    /\ js_pc = "scan"
    /\ scan_i <= Len(js_text)
    /\ LET ch == js_text[scan_i]
           cand == SubSeq(js_text, start, scan_i)
       IN  IF in_str
           THEN /\ esc' = (~esc /\ ch = "\\")
                /\ in_str' = (esc \/ ch # "\"")
                /\ scan_i' = scan_i + 1
                /\ UNCHANGED <<depth, js_pc, js_result>>
           ELSE IF ch = "\""
           THEN /\ in_str' = TRUE
                /\ scan_i' = scan_i + 1
                /\ UNCHANGED <<esc, depth, js_pc, js_result>>
           ELSE IF ch = "{"
           THEN /\ depth' = depth + 1
                /\ scan_i' = scan_i + 1
                /\ UNCHANGED <<in_str, esc, js_pc, js_result>>
           ELSE IF ch = "}"
           THEN /\ depth' = depth - 1
                /\ IF depth - 1 = 0
                   THEN /\ js_result' = IF json_loads(cand).ok THEN json_loads(cand).val
                                        ELSE ParseFailedDict(js_text, cand)
                        /\ js_pc' = "done"
                        /\ UNCHANGED scan_i
                   ELSE /\ scan_i' = scan_i + 1
                        /\ UNCHANGED <<js_pc, js_result>>
                /\ UNCHANGED <<in_str, esc>>
           ELSE /\ scan_i' = scan_i + 1
                /\ UNCHANGED <<depth, in_str, esc, js_pc, js_result>>
    /\ UNCHANGED <<js_arg, js_text, start>>
    /\ UNCHANGED <<config, engineCallVars, calls, uiVars, capsVars, ocrVars>>

\* line 64: the loop ran out of characters
JsUnclosed ==
    /\ js_pc = "scan"
    /\ scan_i > Len(js_text)
    /\ js_result' = ErrorDict("Unclosed JSON object", js_text)
    /\ js_pc' = "done"
    /\ UNCHANGED <<js_arg, js_text, start, scan_i, depth, in_str, esc>>
    /\ UNCHANGED <<config, engineCallVars, calls, uiVars, capsVars, ocrVars>>

JsNext ==
    \/ JsWhole
    \/ JsScanChar
    \/ JsUnclosed

JsSpec == JsInit /\ [][JsNext]_vars

\* ------------------------------------------------------------------
\* C28
\* ------------------------------------------------------------------
RECURSIVE QuoteOpenAfter(_)
\* <<inside, escaped>>: whether the end of s is inside a double-quoted string,
\* and whether its last character is a backslash that escapes the next one
QuoteOpenAfter(s) ==
    IF s = <<>> THEN <<FALSE, FALSE>>
    ELSE LET before == QuoteOpenAfter(SubSeq(s, 1, Len(s) - 1))
             last == s[Len(s)]
         IN  IF ~before[1] THEN <<last = "\"", FALSE>>
             ELSE IF before[2] THEN <<TRUE, FALSE>>
             ELSE IF last = "\\" THEN <<TRUE, TRUE>>
             ELSE <<last # "\"", FALSE>>

\* the braces of s that are outside double-quoted strings: opening minus closing
BraceDepth(s) ==
    LET outside == {i \in 1..Len(s) : ~QuoteOpenAfter(SubSeq(s, 1, i - 1))[1]}
    IN  Cardinality({i \in outside : s[i] = "{"}) - Cardinality({i \in outside : s[i] = "}"})

\* the scan stopped at a closing brace that brought the depth to 0
StoppedAtCandidate == js_pc = "done" /\ start > 0 /\ depth = 0

\* C28: the scan starts at the first "{" and tracks the depth of the braces
\* outside double-quoted strings (backslash escapes honoured); the depth is at
\* least 1 until the scan stops; the candidate is the shortest prefix from the
\* first "{" at which the depth is back to 0; and for every input text the
\* function returns a dict.
C28_FirstObjectOnly ==
    /\ js_pc = "scan" =>
          /\ start = FindBrace(js_text)
          /\ depth = BraceDepth(SubSeq(js_text, start, scan_i - 1))
          /\ in_str = QuoteOpenAfter(SubSeq(js_text, start, scan_i - 1))[1]
          /\ scan_i > start => depth >= 1
    /\ StoppedAtCandidate =>
          LET cand == SubSeq(js_text, start, scan_i)
          IN  /\ BraceDepth(cand) = 0
              /\ \A j \in 1..(Len(cand) - 1) : BraceDepth(SubSeq(cand, 1, j)) >= 1
              /\ js_result = IF json_loads(cand).ok THEN json_loads(cand).val
                             ELSE ParseFailedDict(js_text, cand)
    /\ js_pc = "done" => js_result.t = "dict"

====
